---- MODULE Spec2Model ----
(***************************************************************************)
(* Keyframe annotation store of octoWatch (src/app.py): the IoU interval   *)
(* locator and the edit handlers update_keyframe, delete_keyframe_iou and  *)
(* delete_keyframes, with the backup files they create around each write;  *)
(* the same handlers as request threads running side by side; and the      *)
(* detection jobs of src/detection_manager.py with their progress stream.  *)
(*                                                                         *)
(* Numbers.  Box coordinates and confidences are Python floats; the model  *)
(* computes with exact rationals <<n, d>> (d > 0, lowest terms), so a      *)
(* comparison such as iou < 0.8 is decided exactly.  Timestamps are        *)
(* counted in ticks of half a frame period: the keyframe with frame index  *)
(* k has timestamp 2 * k (frame_num / fps in detect_with_yolo.py), and a   *)
(* request may name any tick, also one halfway between two keyframes.      *)
(***************************************************************************)
EXTENDS Integers, Sequences, FiniteSets, TLC

VARIABLES
    disk,      \* videos_keyframes/MVI_<code>_keyframes.json: [kind, keyframes]
    backups,   \* backup files of the code, by the second in their name
    clock,     \* datetime.now(), in whole seconds
    call,      \* the request being answered (history)
    resp,      \* the response returned to it
    located,   \* the locator variables of the handler that answered it
    pre,       \* disk and backups as they were when the call arrived (history)
    nops,      \* number of calls answered so far
    files,     \* videos_keyframes/ when several requests are in flight: path -> file
    threads,   \* the request threads of the server: position and local variables
    trace,     \* what the request threads did to the files (history)
    jobs,             \* DetectionManager.jobs
    progress_queues,  \* DetectionManager.progress_queues
    caller,    \* the threads calling start_detection and cancel_job
    worker,    \* the thread running _run_detection: position and local variables
    process,   \* the detector subprocess
    stream     \* the generator of detection_progress: position and events sent

\* the variables of the request threads and of the detection jobs
concvars ==
    <<files, threads, trace, jobs, progress_queues, caller, worker, process, stream>>

vars == <<disk, backups, clock, call, resp, located, pre, nops,
          files, threads, trace, jobs, progress_queues, caller, worker, process, stream>>

----------------------------------------------------------------------------
(* Bounds *)

\* keyframes per document in the edit specification
MaxFrames == 3
\* edit calls per behaviour
MaxOps == 2
\* keyframes per document in the locator specification
LocFrames == 4
\* keyframes per document in the infill specification
InfillFrames == 4
\* detections per list handed to compute_union_bbox
MaxDets == 3
\* box corners lie on the grid 0, 1/GridSize, ..., 1 when calculate_iou is called
GridSize == 2

----------------------------------------------------------------------------
(* Exact arithmetic *)

Abs(x) == IF x < 0 THEN -x ELSE x

RECURSIVE GCD(_, _)
GCD(a, b) == IF b = 0 THEN a ELSE GCD(b, a % b)

Rat(n, d) ==
    LET s == IF d < 0 THEN -1 ELSE 1
        g == GCD(Abs(n), Abs(d))
    IN  <<(s * n) \div g, (s * d) \div g>>

RAdd(p, q) == Rat(p[1] * q[2] + q[1] * p[2], p[2] * q[2])
RSub(p, q) == Rat(p[1] * q[2] - q[1] * p[2], p[2] * q[2])
RMul(p, q) == Rat(p[1] * q[1], p[2] * q[2])
RDiv(p, q) == Rat(p[1] * q[2], p[2] * q[1])
RLt(p, q) == p[1] * q[2] < q[1] * p[2]
RLe(p, q) == p[1] * q[2] <= q[1] * p[2]
RMax(p, q) == IF RLt(p, q) THEN q ELSE p
RMin(p, q) == IF RLt(q, p) THEN q ELSE p
Zero == <<0, 1>>
One == <<1, 1>>

----------------------------------------------------------------------------
(* Bounding boxes *)

Sides == {"left", "right"}

\* None
NoBox == [none |-> TRUE]

\* A detection dict.  interpolated / edited are FALSE when the key is absent.
Box(x0, y0, x1, y1, c, s) ==
    [x_min |-> x0, y_min |-> y0, x_max |-> x1, y_max |-> y1,
     confidence |-> c, side |-> s, interpolated |-> FALSE, edited |-> FALSE]

Area(b) == RMul(RSub(b.x_max, b.x_min), RSub(b.y_max, b.y_min))

\* faulty variant: no "if x_max < x_min or y_max < y_min" return
calculate_iou_unchecked(box1, box2) ==
    IF box1 = NoBox \/ box2 = NoBox THEN Zero
    ELSE LET x_min == RMax(box1.x_min, box2.x_min)
             y_min == RMax(box1.y_min, box2.y_min)
             x_max == RMin(box1.x_max, box2.x_max)
             y_max == RMin(box1.y_max, box2.y_max)
             intersection_area == RMul(RSub(x_max, x_min), RSub(y_max, y_min))
             union_area == RSub(RAdd(Area(box1), Area(box2)), intersection_area)
         IN  IF union_area = Zero THEN Zero
             ELSE RDiv(intersection_area, union_area)

calculate_iou(box1, box2) ==
    IF box1 = NoBox \/ box2 = NoBox THEN Zero
    ELSE LET x_min == RMax(box1.x_min, box2.x_min)
             y_min == RMax(box1.y_min, box2.y_min)
             x_max == RMin(box1.x_max, box2.x_max)
             y_max == RMin(box1.y_max, box2.y_max)
             intersection_area == RMul(RSub(x_max, x_min), RSub(y_max, y_min))
             union_area == RSub(RAdd(Area(box1), Area(box2)), intersection_area)
         IN  IF RLt(x_max, x_min) \/ RLt(y_max, y_min) THEN Zero
             ELSE IF union_area = Zero THEN Zero
             ELSE RDiv(intersection_area, union_area)

\* the literal 0.8 of the scans
IoUThreshold == Rat(4, 5)

----------------------------------------------------------------------------
(* Keyframe documents *)

\* One entry of keyframes, as the detector stores it for frame frame_num.
Frame(frame_num, left_dets, right_dets) ==
    [key |-> frame_num,
     timestamp |-> 2 * frame_num,
     left_detections |-> left_dets,
     right_detections |-> right_dets,
     has_left_octopus |-> Len(left_dets) > 0,
     has_right_octopus |-> Len(right_dets) > 0]

\* frame_data.get(f'{s}_detections')
Dets(frame_data, s) ==
    IF s = "left" THEN frame_data.left_detections ELSE frame_data.right_detections

\* frame_data[f'has_{s}_octopus']
Has(frame_data, s) ==
    IF s = "left" THEN frame_data.has_left_octopus ELSE frame_data.has_right_octopus

\* frame_data[f'{s}_detections'] = dets
SetDets(frame_data, s, dets) ==
    IF s = "left" THEN [frame_data EXCEPT !.left_detections = dets]
    ELSE [frame_data EXCEPT !.right_detections = dets]

\* frame_data[f'has_{s}_octopus'] = b
SetHas(frame_data, s, b) ==
    IF s = "left" THEN [frame_data EXCEPT !.has_left_octopus = b]
    ELSE [frame_data EXCEPT !.has_right_octopus = b]

\* keyframes is a dict: a sequence of entries in insertion (iteration) order.
Keys(keyframes) == {keyframes[i].key : i \in 1..Len(keyframes)}

\* position of frame_key in the iteration order (0 when absent)
IndexOf(keyframes, frame_key) ==
    IF frame_key \in Keys(keyframes)
    THEN CHOOSE i \in 1..Len(keyframes) : keyframes[i].key = frame_key
    ELSE 0

\* sorted(keyframes.items(), key=lambda x: int(x[0]))
sorted_frames(keyframes) == SortSeq(keyframes, LAMBDA a, b : a.key < b.key)

\* detect_with_yolo.compute_iou
compute_iou(box1, box2) ==
    LET x1 == RMax(box1.x_min, box2.x_min)
        y1 == RMax(box1.y_min, box2.y_min)
        x2 == RMin(box1.x_max, box2.x_max)
        y2 == RMin(box1.y_max, box2.y_max)
        intersection == RMul(RMax(Zero, RSub(x2, x1)), RMax(Zero, RSub(y2, y1)))
        union == RSub(RAdd(Area(box1), Area(box2)), intersection)
    IN  IF RLt(Zero, union) THEN RDiv(intersection, union) ELSE Zero

\* the inner loop of preprocess_keyframes: the first detection of greatest IoU
RECURSIVE BestDetection(_, _, _, _, _)
BestDetection(last_single_detection, detections, i, best_iou, best_detection) ==
    IF i > Len(detections) THEN best_detection
    ELSE LET iou == compute_iou(last_single_detection, detections[i])
         IN  IF RLt(best_iou, iou)
             THEN BestDetection(last_single_detection, detections, i + 1, iou, detections[i])
             ELSE BestDetection(last_single_detection, detections, i + 1, best_iou, best_detection)

\* processed_keyframes[str(kf_idx)] = kf.copy() unless the key is there already
InsertIfAbsent(processed, kf) ==
    IF kf.key \in Keys(processed) THEN processed ELSE Append(processed, kf)

\* one pass of preprocess_keyframes over one side, in ascending frame order
RECURSIVE PreprocessSide(_, _, _, _, _)
PreprocessSide(side, sorted, i, last_single_detection, processed) ==
    IF i > Len(sorted) THEN processed
    ELSE LET kf == sorted[i]
             detections == Dets(kf, side)
         IN  IF Len(detections) = 1
             THEN PreprocessSide(side, sorted, i + 1, detections[1], processed)
             ELSE IF Len(detections) > 1 /\ last_single_detection # NoBox
             THEN LET best == BestDetection(last_single_detection, detections, 1,
                                            <<-1, 1>>, NoBox)
                      with == InsertIfAbsent(processed, kf)
                      at == IndexOf(with, kf.key)
                  IN  PreprocessSide(side, sorted, i + 1, last_single_detection,
                          [with EXCEPT ![at] = SetDets(with[at], side, <<best>>)])
             ELSE PreprocessSide(side, sorted, i + 1, last_single_detection,
                                 InsertIfAbsent(processed, kf))

\* the closing loop of preprocess_keyframes: the entries not copied yet
RECURSIVE AppendRest(_, _, _)
AppendRest(keyframes, i, processed) ==
    IF i > Len(keyframes) THEN processed
    ELSE AppendRest(keyframes, i + 1, InsertIfAbsent(processed, keyframes[i]))

preprocess_keyframes(keyframes) ==
    LET sorted == sorted_frames(keyframes)
        left == PreprocessSide("left", sorted, 1, NoBox, <<>>)
        right == PreprocessSide("right", sorted, 1, NoBox, left)
    IN  AppendRest(keyframes, 1, right)

----------------------------------------------------------------------------
(* Interval locator: the scan shared by update_keyframe and delete_keyframe_iou *)

\* float('inf')
Inf == -1

\* faulty variant: time_diff <= min_time_diff
IsCloserOrEqual(time_diff, min_time_diff) ==
    min_time_diff = -1 \/ time_diff <= min_time_diff

\* time_diff < min_time_diff
IsCloser(time_diff, min_time_diff) ==
    min_time_diff = Inf \/ time_diff < min_time_diff

\* the loop over keyframes_data['keyframes'].items(): position of the nearest
\* entry in iteration order, 0 for None
RECURSIVE NearestScan(_, _, _, _, _)
NearestScan(keyframes, timestamp, i, min_time_diff, nearest) ==
    IF i > Len(keyframes) THEN nearest
    ELSE LET time_diff == Abs(keyframes[i].timestamp - timestamp)
         IN  IF IsCloser(time_diff, min_time_diff)
             THEN NearestScan(keyframes, timestamp, i + 1, time_diff, i)
             ELSE NearestScan(keyframes, timestamp, i + 1, min_time_diff, nearest)

\* side in ['both', s]
Selected(side, s) == side = "both" \/ side = s

\* the sides that get a reference box: requested and detected at the nearest frame
RefSides(nearest_frame, side) ==
    {s \in Sides : Selected(side, s) /\ Dets(nearest_frame, s) # <<>>}

reference_boxes(nearest_frame, side) ==
    [s \in RefSides(nearest_frame, side) |-> Dets(nearest_frame, s)[1]]

\* faulty variant: iou <= 0.8
AtOrBelowThreshold(iou) == RLe(iou, <<4, 5>>)

\* iou < 0.8
BelowThreshold(iou) == RLt(iou, IoUThreshold)

\* faulty variant: only the left side examined
should_stop_left_only(frame_data, refs) ==
    /\ "left" \in DOMAIN refs
    /\ \/ Dets(frame_data, "left") = <<>>
       \/ BelowThreshold(calculate_iou(refs["left"], Dets(frame_data, "left")[1]))

\* the loop over ['left', 'right'] inside either scan
should_stop(frame_data, refs) ==
    \E s \in DOMAIN refs :
        \/ Dets(frame_data, s) = <<>>
        \/ BelowThreshold(calculate_iou(refs[s], Dets(frame_data, s)[1]))

\* for i in range(nearest_index - 1, -1, -1)
RECURSIVE ScanBackward(_, _, _, _)
ScanBackward(sorted, i, refs, interval_start_index) ==
    IF i < 1 THEN interval_start_index
    ELSE IF should_stop(sorted[i], refs) THEN interval_start_index
    ELSE ScanBackward(sorted, i - 1, refs, i)

\* for i in range(nearest_index + 1, len(sorted_frames))
RECURSIVE ScanForward(_, _, _, _)
ScanForward(sorted, i, refs, interval_end_index) ==
    IF i > Len(sorted) THEN interval_end_index
    ELSE IF should_stop(sorted[i], refs) THEN interval_end_index
    ELSE ScanForward(sorted, i + 1, refs, i)

NoInterval ==
    [found |-> "no_keyframes", nearest_frame_key |-> -1, refs |-> {},
     interval_start_index |-> 0, interval_end_index |-> 0]

\* faulty variant: no "if not reference_boxes" return
LocateWithoutReferenceCheck(keyframes, timestamp, side) ==
    LET n == NearestScan(keyframes, timestamp, 1, Inf, 0)
    IN  IF n = 0 THEN NoInterval
        ELSE LET nearest_frame == keyframes[n]
                 refs == reference_boxes(nearest_frame, side)
                 sorted == sorted_frames(keyframes)
                 nearest_index == IndexOf(sorted, nearest_frame.key)
             IN  [found |-> "ok",
                  nearest_frame_key |-> nearest_frame.key,
                  refs |-> DOMAIN refs,
                  interval_start_index |->
                      ScanBackward(sorted, nearest_index - 1, refs, nearest_index),
                  interval_end_index |->
                      ScanForward(sorted, nearest_index + 1, refs, nearest_index)]

\* From the nearest-keyframe search to the end of the forward scan.
\* Indices are positions in sorted_frames (from 1).
Locate(keyframes, timestamp, side) ==
    LET n == NearestScan(keyframes, timestamp, 1, Inf, 0)
    IN  IF n = 0 THEN NoInterval
        ELSE LET nearest_frame == keyframes[n]
                 refs == reference_boxes(nearest_frame, side)
                 sorted == sorted_frames(keyframes)
                 nearest_index == IndexOf(sorted, nearest_frame.key)
             IN  IF DOMAIN refs = {}
                 THEN [NoInterval EXCEPT !.found = "no_detection",
                                         !.nearest_frame_key = nearest_frame.key]
                 ELSE [found |-> "ok",
                       nearest_frame_key |-> nearest_frame.key,
                       refs |-> DOMAIN refs,
                       interval_start_index |->
                           ScanBackward(sorted, nearest_index - 1, refs, nearest_index),
                       interval_end_index |->
                           ScanForward(sorted, nearest_index + 1, refs, nearest_index)]

\* the frame keys of sorted_frames[interval_start_index .. interval_end_index]
IntervalKeys(keyframes, loc) ==
    {sorted_frames(keyframes)[i].key : i \in loc.interval_start_index..loc.interval_end_index}

----------------------------------------------------------------------------
(* Edits of the in-memory document *)

\* faulty variant: the keyframes that held a detection are counted, not the detections
RECURSIVE SumLenFrames(_, _, _, _)
SumLenFrames(keyframes, keys, s, i) ==
    IF i > Len(keyframes) THEN 0
    ELSE (IF keyframes[i].key \in keys /\ Dets(keyframes[i], s) # <<>> THEN 1 ELSE 0)
         + SumLenFrames(keyframes, keys, s, i + 1)

RECURSIVE SumLen(_, _, _, _)
\* sum of len(frame_data[f'{s}_detections']) over the entries whose key is in keys
SumLen(keyframes, keys, s, i) ==
    IF i > Len(keyframes) THEN 0
    ELSE (IF keyframes[i].key \in keys THEN Len(Dets(keyframes[i], s)) ELSE 0)
         + SumLen(keyframes, keys, s, i + 1)

\* faulty variant: the list emptied, the boolean summary left as it was
ClearListOnly(frame_data, s) == SetDets(frame_data, s, <<>>)

\* the two assignments made when a non-empty side of one entry is deleted
ClearSide(frame_data, s) ==
    SetHas(SetDets(frame_data, s, <<>>), s, FALSE)

\* if side in ['both', s] and frame_data.get(f'{s}_detections'): clear
DeleteSide(frame_data, side, s) ==
    IF Selected(side, s) /\ Dets(frame_data, s) # <<>>
    THEN ClearSide(frame_data, s)
    ELSE frame_data

DeleteFrame(frame_data, side) ==
    DeleteSide(DeleteSide(frame_data, side, "left"), side, "right")

\* the deletion loop over sorted_frames[interval_start_index .. interval_end_index]
DeleteInterval(keyframes, keys, side) ==
    [i \in 1..Len(keyframes) |->
        IF keyframes[i].key \in keys THEN DeleteFrame(keyframes[i], side)
        ELSE keyframes[i]]

\* {**modification_boxes[s], 'side': s, 'confidence': 1.0}
ModifiedBox(bbox, s) ==
    [x_min |-> bbox.x_min, y_min |-> bbox.y_min, x_max |-> bbox.x_max,
     y_max |-> bbox.y_max, confidence |-> One, side |-> s,
     interpolated |-> FALSE, edited |-> FALSE]

\* side in ['both', s] and frame_data.get(f'{s}_detections') and s in modification_boxes
ModifyApplies(frame_data, side, s, boxes) ==
    Selected(side, s) /\ Dets(frame_data, s) # <<>> /\ s \in DOMAIN boxes

ModifySide(frame_data, side, s, boxes) ==
    IF ModifyApplies(frame_data, side, s, boxes)
    THEN SetDets(frame_data, s, <<ModifiedBox(boxes[s], s)>>)
    ELSE frame_data

\* the replacement loop over the interval
ModifyInterval(keyframes, keys, side, boxes) ==
    [i \in 1..Len(keyframes) |->
        IF keyframes[i].key \in keys
        THEN ModifySide(ModifySide(keyframes[i], side, "left", boxes), side, "right", boxes)
        ELSE keyframes[i]]

\* number of entries of the interval whose side s is replaced
ModifiedCount(keyframes, keys, side, s, boxes) ==
    Cardinality({i \in 1..Len(keyframes) :
        keyframes[i].key \in keys /\ ModifyApplies(keyframes[i], side, s, boxes)})

\* **None raises TypeError: a replaced side whose request carries no bbox
ModifyRaises(keyframes, keys, side, boxes) ==
    \E i \in 1..Len(keyframes) : \E s \in Sides :
        /\ keyframes[i].key \in keys
        /\ ModifyApplies(keyframes[i], side, s, boxes)
        /\ boxes[s] = NoBox

----------------------------------------------------------------------------
(* Range edits of delete_keyframes *)

\* faulty variant: the end of the range left out
InRangeOpenEnd(frame_data, start_time, end_time) ==
    start_time <= frame_data.timestamp /\ frame_data.timestamp < end_time

\* start_time <= timestamp <= end_time
InRange(frame_data, start_time, end_time) ==
    start_time <= frame_data.timestamp /\ frame_data.timestamp <= end_time

RangeKeys(keyframes, start_time, end_time) ==
    {keyframes[i].key : i \in {j \in 1..Len(keyframes) :
                                InRange(keyframes[j], start_time, end_time)}}

\* faulty variant: the side selector ignored
RangeDeleteAnySide(frame_data, side, s) ==
    IF Dets(frame_data, s) # <<>> THEN ClearSide(frame_data, s) ELSE frame_data

\* method == 'delete': one side of one entry
RangeDeleteSide(frame_data, side, s) ==
    IF (side = "both" \/ side = s) /\ Dets(frame_data, s) # <<>>
    THEN ClearSide(frame_data, s)
    ELSE frame_data

\* method == 'delete': the loop over keyframes_data['keyframes'].items()
RangeDelete(keyframes, start_time, end_time, side) ==
    [i \in 1..Len(keyframes) |->
        IF InRange(keyframes[i], start_time, end_time)
        THEN RangeDeleteSide(RangeDeleteSide(keyframes[i], side, "left"), side, "right")
        ELSE keyframes[i]]

\* deleted_left / deleted_right
RangeDeleted(keyframes, start_time, end_time, side, s) ==
    IF side = "both" \/ side = s
    THEN SumLen(keyframes, RangeKeys(keyframes, start_time, end_time), s, 1)
    ELSE 0

\* affected_count of method == 'delete'
RangeDeleteAffected(keyframes, start_time, end_time, side) ==
    Cardinality({<<i, s>> \in (1..Len(keyframes)) \X Sides :
        /\ InRange(keyframes[i], start_time, end_time)
        /\ (side = "both" \/ side = s)
        /\ Dets(keyframes[i], s) # <<>>})

\* faulty variant: the loop breaks at the first match, as the next-frame loop does
RECURSIVE FindPrevFirst(_, _, _, _, _)
FindPrevFirst(sorted, side_key, start_time, i, prev) ==
    IF i > Len(sorted) THEN prev
    ELSE IF sorted[i].timestamp < start_time /\ Dets(sorted[i], side_key) # <<>>
    THEN i
    ELSE FindPrevFirst(sorted, side_key, start_time, i + 1, prev)

\* "Find previous frame with detection": the last match of the loop
RECURSIVE FindPrev(_, _, _, _, _)
FindPrev(sorted, side_key, start_time, i, prev) ==
    IF i > Len(sorted) THEN prev
    ELSE IF sorted[i].timestamp < start_time /\ Dets(sorted[i], side_key) # <<>>
    THEN FindPrev(sorted, side_key, start_time, i + 1, i)
    ELSE FindPrev(sorted, side_key, start_time, i + 1, prev)

\* faulty variant: timestamp >= end_time
RECURSIVE FindNextAtOrAfter(_, _, _, _)
FindNextAtOrAfter(sorted, side_key, end_time, i) ==
    IF i > Len(sorted) THEN 0
    ELSE IF sorted[i].timestamp >= end_time /\ Dets(sorted[i], side_key) # <<>>
    THEN i
    ELSE FindNextAtOrAfter(sorted, side_key, end_time, i + 1)

\* "Find next frame with detection": the first match, then break
RECURSIVE FindNext(_, _, _, _)
FindNext(sorted, side_key, end_time, i) ==
    IF i > Len(sorted) THEN 0
    ELSE IF sorted[i].timestamp > end_time /\ Dets(sorted[i], side_key) # <<>>
    THEN i
    ELSE FindNext(sorted, side_key, end_time, i + 1)

\* positions in sorted_frames of prev_frame and next_frame, 0 for None
find_boundary_keyframes(keyframes, side_key, start_time, end_time) ==
    LET sorted == sorted_frames(keyframes)
    IN  [prev |-> FindPrev(sorted, side_key, start_time, 1, 0),
         next |-> FindNext(sorted, side_key, end_time, 1)]

\* faulty variant: the first element taken for the minimum
RECURSIVE FoldFirst(_, _, _)
FoldFirst(vals, i, acc) ==
    IF i > Len(vals) THEN acc ELSE FoldFirst(vals, i + 1, acc)

RECURSIVE FoldMin(_, _, _)
FoldMin(vals, i, acc) ==
    IF i > Len(vals) THEN acc ELSE FoldMin(vals, i + 1, RMin(acc, vals[i]))

RECURSIVE FoldMax(_, _, _)
FoldMax(vals, i, acc) ==
    IF i > Len(vals) THEN acc ELSE FoldMax(vals, i + 1, RMax(acc, vals[i]))

RECURSIVE FoldSum(_, _)
FoldSum(vals, i) ==
    IF i > Len(vals) THEN Zero ELSE RAdd(vals[i], FoldSum(vals, i + 1))

\* faulty variant: min and max exchanged, the intersection in place of the envelope
compute_intersection_bbox(detections) ==
    IF detections = <<>> THEN NoBox
    ELSE IF Len(detections) = 1 THEN detections[1]
    ELSE LET xs0 == [i \in 1..Len(detections) |-> detections[i].x_min]
             ys0 == [i \in 1..Len(detections) |-> detections[i].y_min]
             xs1 == [i \in 1..Len(detections) |-> detections[i].x_max]
             ys1 == [i \in 1..Len(detections) |-> detections[i].y_max]
             cs == [i \in 1..Len(detections) |-> detections[i].confidence]
         IN  Box(FoldMax(xs0, 2, xs0[1]), FoldMax(ys0, 2, ys0[1]),
                 FoldMin(xs1, 2, xs1[1]), FoldMin(ys1, 2, ys1[1]),
                 RDiv(FoldSum(cs, 1), <<Len(detections), 1>>),
                 detections[1].side)

compute_union_bbox(detections) ==
    IF detections = <<>> THEN NoBox
    ELSE IF Len(detections) = 1 THEN detections[1]
    ELSE LET xs0 == [i \in 1..Len(detections) |-> detections[i].x_min]
             ys0 == [i \in 1..Len(detections) |-> detections[i].y_min]
             xs1 == [i \in 1..Len(detections) |-> detections[i].x_max]
             ys1 == [i \in 1..Len(detections) |-> detections[i].y_max]
             cs == [i \in 1..Len(detections) |-> detections[i].confidence]
         IN  Box(FoldMin(xs0, 2, xs0[1]), FoldMin(ys0, 2, ys0[1]),
                 FoldMax(xs1, 2, xs1[1]), FoldMax(ys1, 2, ys1[1]),
                 RDiv(FoldSum(cs, 1), <<Len(detections), 1>>),
                 detections[1].side)

\* faulty variant: the weight measured from the next boundary
LerpReversed(prev, next, weight) == RAdd(next, RMul(RSub(prev, next), weight))

\* prev + (next - prev) * weight
Lerp(prev, next, weight) == RAdd(prev, RMul(RSub(next, prev), weight))

\* the dict named interpolated
Interpolated(prev_bbox, next_bbox, weight, s) ==
    [x_min |-> Lerp(prev_bbox.x_min, next_bbox.x_min, weight),
     y_min |-> Lerp(prev_bbox.y_min, next_bbox.y_min, weight),
     x_max |-> Lerp(prev_bbox.x_max, next_bbox.x_max, weight),
     y_max |-> Lerp(prev_bbox.y_max, next_bbox.y_max, weight),
     confidence |-> Lerp(prev_bbox.confidence, next_bbox.confidence, weight),
     side |-> s, interpolated |-> TRUE, edited |-> FALSE]

\* {**bbox, 'interpolated': True}
CopyInterpolated(bbox) == [bbox EXCEPT !.interpolated = TRUE]

\* the body of "if start_time <= timestamp <= end_time" for one entry
InfillFrame(frame_data, s, prev_bbox, prev_ts, next_bbox, next_ts) ==
    LET box == IF prev_bbox # NoBox /\ next_bbox # NoBox
               THEN Interpolated(prev_bbox, next_bbox,
                        Rat(frame_data.timestamp - prev_ts, next_ts - prev_ts), s)
               ELSE IF prev_bbox # NoBox THEN CopyInterpolated(prev_bbox)
               ELSE CopyInterpolated(next_bbox)
    IN  SetHas(SetDets(frame_data, s, <<box>>), s, TRUE)

\* "Process left side if needed" / "Process right side if needed"
InfillSide(keyframes, side, s, start_time, end_time) ==
    LET b == find_boundary_keyframes(keyframes, s, start_time, end_time)
        sorted == sorted_frames(keyframes)
        prev_bbox == IF b.prev # 0 THEN compute_union_bbox(Dets(sorted[b.prev], s)) ELSE NoBox
        next_bbox == IF b.next # 0 THEN compute_union_bbox(Dets(sorted[b.next], s)) ELSE NoBox
        prev_ts == IF b.prev # 0 THEN sorted[b.prev].timestamp ELSE 0
        next_ts == IF b.next # 0 THEN sorted[b.next].timestamp ELSE 0
    IN  IF (side = "both" \/ side = s) /\ (b.prev # 0 \/ b.next # 0)
        THEN [i \in 1..Len(keyframes) |->
                 IF InRange(keyframes[i], start_time, end_time)
                 THEN InfillFrame(keyframes[i], s, prev_bbox, prev_ts, next_bbox, next_ts)
                 ELSE keyframes[i]]
        ELSE keyframes

\* method == 'infill'
RangeInfill(keyframes, start_time, end_time, side) ==
    InfillSide(InfillSide(keyframes, side, "left", start_time, end_time),
               side, "right", start_time, end_time)

\* faulty variant: counted beside affected_count, whatever the boundaries
RangeInfilledUnconditional(keyframes, start_time, end_time, side, s) ==
    IF side = "both" \/ side = s
    THEN Cardinality(RangeKeys(keyframes, start_time, end_time))
    ELSE 0

\* infilled_left / infilled_right (also the side's share of affected_count)
RangeInfilled(keyframes, start_time, end_time, side, s) ==
    LET b == find_boundary_keyframes(keyframes, s, start_time, end_time)
    IN  IF (side = "both" \/ side = s) /\ (b.prev # 0 \/ b.next # 0)
        THEN Cardinality(RangeKeys(keyframes, start_time, end_time))
        ELSE 0

----------------------------------------------------------------------------
(* Files and responses *)

\* a path that does not exist
NoFile == [kind |-> "missing", keyframes |-> <<>>]

\* a file json.load rejects
CorruptFile == [kind |-> "corrupt", keyframes |-> <<>>]

\* a file json.load accepts that has no 'keyframes' key: keyframes_data['keyframes']
\* raises KeyError, 'keyframes' in keyframes_data is False
NoKeyframesFile == [kind |-> "no_keyframes", keyframes |-> <<>>]

\* a keyframe document
JsonFile(keyframes) == [kind |-> "json", keyframes |-> keyframes]

\* no backup_file in the response
NoName == -1

NoTimes == [start_time |-> -1, end_time |-> -1, start_frame |-> -1, end_frame |-> -1]

\* {'left': l, 'right': r}
Counts(l, r) == [left |-> l, right |-> r]

NoCounts == Counts(0, 0)

\* jsonify({'error': ...}), status
Error(status, error) ==
    [status |-> status, success |-> FALSE, error |-> error, message |-> "",
     interval |-> NoTimes, frames_affected |-> 0, deleted |-> NoCounts,
     modified |-> NoCounts, infilled |-> NoCounts, keyframes_affected |-> 0,
     backup_file |-> NoName]

\* jsonify({'success': True, 'message': ...})
Success(message) ==
    [Error(200, "") EXCEPT !.success = TRUE, !.message = message]

\* what a handler leaves behind: the two kinds of file, its response, and the
\* values of its locator variables (NoInterval where it has none)
Outcome(d, b, r) == [disk |-> d, backups |-> b, resp |-> r, loc |-> NoInterval]

\* an Outcome of a handler that ran the interval locator
Located(out, loc) == [out EXCEPT !.loc = loc]

\* faulty variant: a backup file that exists already is not written again
CopyUnlessExists(b, now, d) ==
    IF b[now].kind = "missing" THEN [b EXCEPT ![now] = d] ELSE b

\* shutil.copy2(keyframes_path, backup_path); backup_path is named by the second
copy2(b, now, d) == [b EXCEPT ![now] = d]

\* faulty variant: the file that open(..., 'w') truncated is left as it is
LeaveTruncated(b, now) ==
    Outcome([kind |-> "corrupt", keyframes |-> <<>>], b,
            [status |-> 500, success |-> FALSE, error |-> "Failed to save keyframes",
             message |-> "", interval |-> NoTimes, frames_affected |-> 0,
             deleted |-> NoCounts, modified |-> NoCounts, infilled |-> NoCounts,
             keyframes_affected |-> 0, backup_file |-> NoName])

\* shutil.move(backup_path, keyframes_path) in the except branch
RestoreFromBackup(b, now) ==
    Outcome(b[now], [b EXCEPT ![now] = NoFile],
            Error(500, "Failed to save keyframes"))

\* try: json.dump(keyframes_data, f) / except: restore and report
Save(b, now, keyframes_data, write_ok, response) ==
    IF write_ok
    THEN Outcome(JsonFile(keyframes_data), b, [response EXCEPT !.backup_file = now])
    ELSE RestoreFromBackup(b, now)

\* 'interval' of the IoU responses
IntervalTimes(keyframes, loc) ==
    LET sorted == sorted_frames(keyframes)
    IN  [start_time |-> sorted[loc.interval_start_index].timestamp,
         end_time |-> sorted[loc.interval_end_index].timestamp,
         start_frame |-> sorted[loc.interval_start_index].key,
         end_frame |-> sorted[loc.interval_end_index].key]

----------------------------------------------------------------------------
(* The handlers: each maps the files, the clock and a request to an Outcome *)

delete_keyframe_iou(d, b, now, timestamp, side, write_ok) ==
    IF d.kind = "missing" THEN Outcome(d, b, Error(404, "Keyframes file not found"))
    ELSE IF d.kind = "corrupt" THEN Outcome(d, b, Error(500, "Failed to load keyframes"))
    ELSE IF d.kind = "no_keyframes" THEN Outcome(d, b, Error(500, "KeyError"))
    ELSE LET keyframes == d.keyframes
             loc == Locate(keyframes, timestamp, side)
             keys == IntervalKeys(keyframes, loc)
         IN  Located(
                 IF loc.found = "no_keyframes"
                 THEN Outcome(d, b, Error(404, "No keyframes found"))
                 ELSE IF loc.found = "no_detection"
                 THEN Outcome(d, b, Error(404, "No detection found"))
                 ELSE Save(copy2(b, now, d), now, DeleteInterval(keyframes, keys, side), write_ok,
                           [Success("IoU-based deletion completed") EXCEPT
                               !.interval = IntervalTimes(keyframes, loc),
                               !.frames_affected = Cardinality(keys),
                               !.deleted = Counts(
                                   IF Selected(side, "left") THEN SumLen(keyframes, keys, "left", 1) ELSE 0,
                                   IF Selected(side, "right") THEN SumLen(keyframes, keys, "right", 1) ELSE 0)]),
                 loc)

\* faulty variant: every side of the request, whatever its editType
EditSidesAny(modifications, t) == DOMAIN modifications

\* the sides whose editType is t
EditSides(modifications, t) ==
    {s \in DOMAIN modifications : modifications[s].editType = t}

\* faulty variant: sides[0] whatever the number of sides
SideOfFirst(sides) == IF "left" \in sides THEN "left" ELSE "right"

\* 'both' if len(sides) == 2 else sides[0]
SideOf(sides) == IF sides = Sides THEN "both" ELSE CHOOSE s \in sides : TRUE

\* the branch "if has_deletion"
UpdateDeletion(d, b, now, timestamp, side, write_ok) ==
    IF d.kind = "missing" THEN Outcome(d, b, Error(404, "Keyframes file not found"))
    ELSE IF d.kind = "corrupt" THEN Outcome(d, b, Error(500, "Failed to load keyframes"))
    ELSE IF d.kind = "no_keyframes" THEN Outcome(d, b, Error(500, "KeyError"))
    ELSE LET keyframes == d.keyframes
             loc == Locate(keyframes, timestamp, side)
             keys == IntervalKeys(keyframes, loc)
         IN  Located(
                 IF loc.found = "no_keyframes"
                 THEN Outcome(d, b, Error(404, "No keyframes found"))
                 ELSE IF loc.found = "no_detection"
                 THEN Outcome(d, b, Error(404, "No detection found"))
                 ELSE Save(copy2(b, now, d), now, DeleteInterval(keyframes, keys, side), write_ok,
                           [Success("IoU-based deletion completed") EXCEPT
                               !.interval = IntervalTimes(keyframes, loc),
                               !.frames_affected = Cardinality(keys),
                               !.deleted = Counts(
                                   IF Selected(side, "left") THEN SumLen(keyframes, keys, "left", 1) ELSE 0,
                                   IF Selected(side, "right") THEN SumLen(keyframes, keys, "right", 1) ELSE 0)]),
                 loc)

\* the branch "elif has_modification"
UpdateModification(d, b, now, timestamp, side, boxes, write_ok) ==
    IF d.kind = "missing" THEN Outcome(d, b, Error(404, "Keyframes file not found"))
    ELSE IF d.kind = "corrupt" THEN Outcome(d, b, Error(500, "Failed to load keyframes"))
    ELSE IF d.kind = "no_keyframes" THEN Outcome(d, b, Error(500, "KeyError"))
    ELSE LET keyframes == d.keyframes
             loc == Locate(keyframes, timestamp, side)
             keys == IntervalKeys(keyframes, loc)
         IN  Located(
                 IF loc.found = "no_keyframes"
                 THEN Outcome(d, b, Error(404, "No keyframes found"))
                 ELSE IF loc.found = "no_detection"
                 THEN Outcome(d, b, Error(404, "No detection found"))
                 ELSE IF ModifyRaises(keyframes, keys, side, boxes)
                 THEN Outcome(d, copy2(b, now, d), Error(500, "TypeError"))
                 ELSE Save(copy2(b, now, d), now, ModifyInterval(keyframes, keys, side, boxes),
                           write_ok,
                           [Success("IoU-based modification completed") EXCEPT
                               !.interval = IntervalTimes(keyframes, loc),
                               !.frames_affected = Cardinality(keys),
                               !.modified = Counts(
                                   ModifiedCount(keyframes, keys, side, "left", boxes),
                                   ModifiedCount(keyframes, keys, side, "right", boxes))]),
                 loc)

\* modifications: the sides present in the request, each with editType and bbox
update_keyframe(d, b, now, timestamp, modifications, write_ok) ==
    LET deletion_sides == EditSides(modifications, "deletion")
        modification_sides == EditSides(modifications, "modification")
        modification_boxes == [s \in modification_sides |-> modifications[s].bbox]
    IN  IF deletion_sides # {}
        THEN UpdateDeletion(d, b, now, timestamp, SideOf(deletion_sides), write_ok)
        ELSE IF modification_sides # {}
        THEN UpdateModification(d, b, now, timestamp, SideOf(modification_sides),
                                modification_boxes, write_ok)
        ELSE Outcome(d, b, Success("Edits received successfully"))

delete_keyframes(d, b, now, start_time, end_time, side, method, write_ok) ==
    IF d.kind = "missing" THEN Outcome(d, b, Error(404, "Keyframes file not found"))
    ELSE IF d.kind = "corrupt" THEN Outcome(d, b, Error(500, "Failed to load keyframes"))
    ELSE IF d.kind = "no_keyframes"
    THEN IF write_ok
         THEN Outcome(d, copy2(b, now, d),
                      [Success("Keyframes processed successfully") EXCEPT !.backup_file = now])
         ELSE RestoreFromBackup(copy2(b, now, d), now)
    ELSE LET keyframes == d.keyframes
         IN  IF method = "delete"
             THEN Save(copy2(b, now, d), now, RangeDelete(keyframes, start_time, end_time, side),
                       write_ok,
                       [Success("Keyframes processed successfully") EXCEPT
                           !.keyframes_affected =
                               RangeDeleteAffected(keyframes, start_time, end_time, side),
                           !.deleted = Counts(
                               RangeDeleted(keyframes, start_time, end_time, side, "left"),
                               RangeDeleted(keyframes, start_time, end_time, side, "right"))])
             ELSE Save(copy2(b, now, d), now, RangeInfill(keyframes, start_time, end_time, side),
                       write_ok,
                       [Success("Keyframes processed successfully") EXCEPT
                           !.keyframes_affected =
                               RangeInfilled(keyframes, start_time, end_time, side, "left")
                               + RangeInfilled(keyframes, start_time, end_time, side, "right"),
                           !.infilled = Counts(
                               RangeInfilled(keyframes, start_time, end_time, side, "left"),
                               RangeInfilled(keyframes, start_time, end_time, side, "right"))])

----------------------------------------------------------------------------
(* Documents and requests the specifications draw from *)

Tenths(n) == Rat(n, 10)

\* left-tank detections: LeftNear overlaps LeftRef with IoU exactly 0.8,
\* LeftFar does not overlap it
LeftRef == Box(Tenths(0), Tenths(0), Tenths(5), Tenths(2), Tenths(9), "left")
LeftNear == Box(Tenths(0), Tenths(0), Tenths(4), Tenths(2), Tenths(8), "left")
LeftFar == Box(Tenths(1), Tenths(5), Tenths(4), Tenths(9), Tenths(6), "left")
RightRef == Box(Tenths(5), Tenths(0), Tenths(10), Tenths(2), Tenths(9), "right")
RightFar == Box(Tenths(6), Tenths(5), Tenths(9), Tenths(9), Tenths(7), "right")

\* a box drawn by the user, for either side
DrawnBox == [x_min |-> Tenths(2), y_min |-> Tenths(3), x_max |-> Tenths(6), y_max |-> Tenths(8)]

\* the detector's output over frames 0 .. n-1: frame i holds one of the given
\* pairs <<left detections, right detections>>
RawDocs(n, pairs) ==
    {[i \in 1..n |-> Frame(i - 1, p[i][1], p[i][2])] : p \in [1..n -> pairs]}

\* detect_octopus_in_video with preprocess off or on
DetectorDocs(n, pairs) ==
    RawDocs(n, pairs) \cup {preprocess_keyframes(k) : k \in RawDocs(n, pairs)}

EditPairs ==
    {<< <<LeftRef>>, <<RightRef>> >>, << <<LeftFar, LeftNear>>, <<>> >>,
     << <<>>, <<RightRef>> >>}

LocatePairs ==
    {<< <<LeftRef>>, <<RightRef>> >>, << <<LeftNear>>, <<RightRef>> >>,
     << <<LeftFar>>, <<RightRef>> >>, << <<>>, <<RightRef>> >>,
     << <<LeftRef>>, <<>> >>}

SideChoices == {"left", "right", "both"}

\* request times: every tick from the first keyframe to the last
Ticks(n) == 0..(2 * (n - 1))

\* the timestamps of the keyframes
FrameTimes(n) == {2 * k : k \in 0..(n - 1)}

\* one side of 'modifications'
EditChoices ==
    {[editType |-> "deletion", bbox |-> NoBox],
     [editType |-> "addition", bbox |-> DrawnBox],
     [editType |-> "modification", bbox |-> DrawnBox],
     [editType |-> "modification", bbox |-> NoBox]}

\* the 'modifications' of a request: none, one side with any of the edits, or
\* both sides with a deletion or a drawn modification each
Modifications ==
    {<<>>}
    \cup {[s \in {side} |-> e] : side \in Sides, e \in EditChoices}
    \cup [Sides -> {[editType |-> "deletion", bbox |-> NoBox],
                    [editType |-> "modification", bbox |-> DrawnBox]}]

NoCall ==
    [op |-> "none", timestamp |-> -1, side |-> "both", method |-> "",
     start_time |-> -1, end_time |-> -1, modifications |-> <<>>, write_ok |-> TRUE,
     now |-> -1, args |-> <<>>, code |-> <<"0", "0", "0", "1">>, data |-> <<>>]

----------------------------------------------------------------------------
(* Specification of edit sequences on one code *)

\* The program's state is the files and the clock.  A behaviour makes up to
\* MaxOps calls; the history variables keep the request, the response and the
\* prior files of one of them, the last: the calls before it leave only their
\* files behind.

\* no request thread and no detection job besides the call being answered
NoThreads ==
    /\ files = <<>>
    /\ threads = <<>>
    /\ trace = <<>>
    /\ jobs = <<>>
    /\ progress_queues = <<>>
    /\ caller = <<>>
    /\ worker = <<>>
    /\ process = <<>>
    /\ stream = <<>>

InitFiles(docs) ==
    /\ disk \in {JsonFile(k) : k \in docs}
                \cup {JsonFile(<<>>), NoFile, CorruptFile, NoKeyframesFile}
    /\ backups = [n \in 0..MaxOps |-> NoFile]
    /\ clock = 0
    /\ call = NoCall
    /\ resp = Error(0, "")
    /\ located = NoInterval
    /\ pre = [disk |-> disk, backups |-> backups]
    /\ nops = 0
    /\ NoThreads

Init == InitFiles(DetectorDocs(MaxFrames, EditPairs))

\* the handler's outcome becomes the new files
Effect(out) ==
    /\ nops < MaxOps
    /\ call.op = "none"
    /\ nops' = nops + 1
    /\ disk' = out.disk
    /\ backups' = out.backups
    /\ UNCHANGED <<clock, concvars>>

\* a call whose response is not kept; the last call of a behaviour is kept
Pass(out) ==
    /\ Effect(out)
    /\ nops + 1 < MaxOps
    /\ UNCHANGED <<call, resp, located, pre>>

\* the call whose request, response and prior files are kept
Watch(c, out) ==
    /\ Effect(out)
    /\ call' = [c EXCEPT !.now = clock]
    /\ resp' = out.resp
    /\ located' = out.loc
    /\ pre' = [disk |-> disk, backups |-> backups]

Answer(c, out) == Pass(out) \/ Watch(c, out)

DeleteKeyframeIou ==
    \E timestamp \in Ticks(MaxFrames), side \in SideChoices, write_ok \in BOOLEAN :
        Answer([NoCall EXCEPT !.op = "delete_keyframe_iou", !.timestamp = timestamp,
                              !.side = side, !.write_ok = write_ok],
               delete_keyframe_iou(disk, backups, clock, timestamp, side, write_ok))

UpdateKeyframe ==
    \E timestamp \in FrameTimes(MaxFrames), modifications \in Modifications,
       write_ok \in BOOLEAN :
        Answer([NoCall EXCEPT !.op = "update_keyframe", !.timestamp = timestamp,
                              !.modifications = modifications, !.write_ok = write_ok],
               update_keyframe(disk, backups, clock, timestamp, modifications, write_ok))

DeleteKeyframes ==
    \E start_time \in FrameTimes(MaxFrames), end_time \in FrameTimes(MaxFrames),
       side \in SideChoices, method \in {"delete", "infill"}, write_ok \in BOOLEAN :
        Answer([NoCall EXCEPT !.op = "delete_keyframes", !.start_time = start_time,
                              !.end_time = end_time, !.side = side, !.method = method,
                              !.write_ok = write_ok],
               delete_keyframes(disk, backups, clock, start_time, end_time, side, method,
                                write_ok))

\* a second passes between two calls (seconds before the first call are not counted)
Tick ==
    /\ clock < nops
    /\ call.op = "none"
    /\ clock' = clock + 1
    /\ UNCHANGED <<disk, backups, call, resp, located, pre, nops, concvars>>

Next == DeleteKeyframeIou \/ UpdateKeyframe \/ DeleteKeyframes \/ Tick

Spec == Init /\ [][Next]_vars

----------------------------------------------------------------------------
(* Specification of the interval locator: one timestamp-based call on a    *)
(* longer document                                                         *)

InitLocate == InitFiles(DetectorDocs(LocFrames, LocatePairs))

LocateDelete ==
    \E timestamp \in Ticks(LocFrames), side \in SideChoices :
        Watch([NoCall EXCEPT !.op = "delete_keyframe_iou", !.timestamp = timestamp,
                             !.side = side],
              delete_keyframe_iou(disk, backups, clock, timestamp, side, TRUE))

LocateModify ==
    \E timestamp \in Ticks(LocFrames), sides \in (SUBSET Sides) \ {{}} :
        LET modifications == [s \in sides |-> [editType |-> "modification", bbox |-> DrawnBox]]
        IN  Watch([NoCall EXCEPT !.op = "update_keyframe", !.timestamp = timestamp,
                                 !.side = SideOf(sides), !.modifications = modifications],
                  update_keyframe(disk, backups, clock, timestamp, modifications, TRUE))

NextLocate == LocateDelete \/ LocateModify

SpecLocate == InitLocate /\ [][NextLocate]_vars

----------------------------------------------------------------------------
(* Specification of the IoU modify: one update_keyframe call whose boxes   *)
(* may be any the client sends                                             *)

\* a box sent with x_min > x_max
InvertedBox == [x_min |-> Tenths(6), y_min |-> Tenths(3), x_max |-> Tenths(2), y_max |-> Tenths(8)]

\* a box sent with zero height
FlatBox == [x_min |-> Tenths(2), y_min |-> Tenths(3), x_max |-> Tenths(6), y_max |-> Tenths(3)]

\* a box sent with x_max outside [0, 1]
OutsideBox == [x_min |-> Tenths(2), y_min |-> Tenths(3), x_max |-> Tenths(12), y_max |-> Tenths(8)]

SentBoxes == {DrawnBox, InvertedBox, FlatBox, OutsideBox}

ModifyWithBoxes ==
    \E timestamp \in FrameTimes(MaxFrames), sides \in (SUBSET Sides) \ {{}} :
        \E boxes \in [sides -> SentBoxes] :
            LET modifications == [s \in sides |-> [editType |-> "modification", bbox |-> boxes[s]]]
            IN  Watch([NoCall EXCEPT !.op = "update_keyframe", !.timestamp = timestamp,
                                     !.side = SideOf(sides), !.modifications = modifications],
                      update_keyframe(disk, backups, clock, timestamp, modifications, TRUE))

NextModify == ModifyWithBoxes

SpecModify == Init /\ [][NextModify]_vars

----------------------------------------------------------------------------
(* Specification of the infill: one delete_keyframes call with method      *)
(* 'infill' on a longer document                                           *)

InitInfill == InitFiles(DetectorDocs(InfillFrames, EditPairs))

InfillRange ==
    \E start_time \in FrameTimes(InfillFrames), end_time \in FrameTimes(InfillFrames),
       side \in SideChoices :
        Watch([NoCall EXCEPT !.op = "delete_keyframes", !.start_time = start_time,
                             !.end_time = end_time, !.side = side, !.method = "infill"],
              delete_keyframes(disk, backups, clock, start_time, end_time, side, "infill", TRUE))

NextInfill == InfillRange

SpecInfill == InitInfill /\ [][NextInfill]_vars

----------------------------------------------------------------------------
(* Specifications of the two box functions: one call of compute_union_bbox *)
(* or of calculate_iou; call.args keeps the arguments, resp the value      *)

InitNoFiles == InitFiles({}) /\ disk = NoFile

\* every list of at most n elements of S
ListsUpTo(S, n) == UNION {[1..k -> S] : k \in 0..n}

UnionBoxes == {LeftRef, LeftNear, LeftFar, RightRef, RightFar}

ComputeUnionBbox ==
    \E detections \in ListsUpTo(UnionBoxes, MaxDets) :
        /\ call.op = "none"
        /\ call' = [NoCall EXCEPT !.op = "compute_union_bbox", !.args = detections]
        /\ resp' = compute_union_bbox(detections)
        /\ UNCHANGED <<disk, backups, clock, located, pre, nops, concvars>>

NextUnion == ComputeUnionBbox

SpecUnion == InitNoFiles /\ [][NextUnion]_vars

\* the boxes with corners on the grid, those of zero width or height included
GridBoxes ==
    {Box(Rat(x0, GridSize), Rat(y0, GridSize), Rat(x1, GridSize), Rat(y1, GridSize),
         Tenths(9), "left") :
        <<x0, y0, x1, y1>> \in {q \in (0..GridSize) \X (0..GridSize) \X (0..GridSize) \X (0..GridSize) :
                                  q[1] <= q[3] /\ q[2] <= q[4]}}

CalculateIou ==
    \E box1 \in GridBoxes \cup {NoBox}, box2 \in GridBoxes \cup {NoBox} :
        /\ call.op = "none"
        /\ call' = [NoCall EXCEPT !.op = "calculate_iou", !.args = <<box1, box2>>]
        /\ resp' = calculate_iou(box1, box2)
        /\ UNCHANGED <<disk, backups, clock, located, pre, nops, concvars>>

NextIou == CalculateIou

SpecIou == InitNoFiles /\ [][NextIou]_vars

----------------------------------------------------------------------------
(* The routes, from the URL and the JSON body on.  code is the <code> of    *)
(* the URL, a sequence of characters; data is request.get_json(), a        *)
(* function from the keys present to their values (a key that is absent or *)
(* null is not in its domain; an empty or missing body has no key).  The   *)
(* file d is the one at videos_keyframes/MVI_<code>_keyframes.json.        *)

DecimalDigits == {"0", "1", "2", "3", "4", "5", "6", "7", "8", "9"}

\* characters for which str.isdigit() is True without being decimal digits,
\* such as SUPERSCRIPT TWO
OtherDigits == {"superscript-2"}

\* code.isdigit()
isdigit(code) ==
    Len(code) > 0 /\ \A i \in 1..Len(code) : code[i] \in DecimalDigits \cup OtherDigits

\* not code.isdigit() or len(code) != 4
InvalidCodeFormat(code) == ~isdigit(code) \/ Len(code) # 4

\* data.get(k, default)
Get(data, k, default) == IF k \in DOMAIN data THEN data[k] ELSE default

PostDeleteKeyframeIou(d, b, now, code, data, write_ok) ==
    IF DOMAIN data = {} THEN Outcome(d, b, Error(400, "No data provided"))
    ELSE IF "timestamp" \notin DOMAIN data
    THEN Outcome(d, b, Error(400, "Timestamp is required"))
    ELSE delete_keyframe_iou(d, b, now, data.timestamp, Get(data, "side", "both"), write_ok)

\* update_keyframe with timestamp None: abs(frame_timestamp - None) raises in the
\* first round of the nearest-keyframe loop, f"{timestamp:.3f}" in the summary
UpdateWithoutTimestamp(d, b, modifications) ==
    IF EditSides(modifications, "deletion") \cup EditSides(modifications, "modification") # {}
    THEN IF d.kind = "missing" THEN Outcome(d, b, Error(404, "Keyframes file not found"))
         ELSE IF d.kind = "corrupt" THEN Outcome(d, b, Error(500, "Failed to load keyframes"))
         ELSE IF d.kind = "no_keyframes" THEN Outcome(d, b, Error(500, "KeyError"))
         ELSE IF d.keyframes = <<>> THEN Outcome(d, b, Error(404, "No keyframes found"))
         ELSE Outcome(d, b, Error(500, "TypeError"))
    ELSE Outcome(d, b, Error(500, "TypeError"))

PostUpdateKeyframe(d, b, now, code, data, write_ok) ==
    IF DOMAIN data = {} THEN Outcome(d, b, Error(400, "No data provided"))
    ELSE IF "timestamp" \notin DOMAIN data
    THEN UpdateWithoutTimestamp(d, b, Get(data, "modifications", <<>>))
    ELSE update_keyframe(d, b, now, data.timestamp, Get(data, "modifications", <<>>), write_ok)

PostDeleteKeyframes(d, b, now, code, data, write_ok) ==
    IF InvalidCodeFormat(code) THEN Outcome(d, b, Error(400, "Invalid code format"))
    ELSE IF DOMAIN data = {} THEN Outcome(d, b, Error(400, "No data provided"))
    ELSE IF "start_time" \notin DOMAIN data \/ "end_time" \notin DOMAIN data
    THEN Outcome(d, b, Error(400, "start_time and end_time are required"))
    ELSE delete_keyframes(d, b, now, data.start_time, data.end_time,
                          Get(data, "side", "both"), Get(data, "method", "delete"), write_ok)

----------------------------------------------------------------------------
(* Specification of request validation: one request to one of the routes *)

Codes ==
    {<<"0", "0", "0", "1">>, <<"1", "2", "3">>, <<"1", "2", "3", "4", "5">>,
     <<"a", "b", "c", "d">>, <<"0", "0", "1", "x">>,
     <<"superscript-2", "superscript-2", "superscript-2", "superscript-2">>}

IouBodies ==
    {<<>>, [side |-> "left"], [timestamp |-> 0], [timestamp |-> 2, side |-> "left"]}

UpdateBodies ==
    {<<>>} \cup
    UNION {{[modifications |-> m], [timestamp |-> 0, modifications |-> m]} :
              m \in {[left |-> [editType |-> "deletion", bbox |-> NoBox]],
                     [right |-> [editType |-> "modification", bbox |-> DrawnBox]]}}

RangeBodies ==
    {<<>>, [start_time |-> 0], [end_time |-> 2], [start_time |-> 0, end_time |-> 2],
     [start_time |-> 0, end_time |-> 2, side |-> "right", method |-> "infill"]}

RequestDeleteKeyframeIou ==
    \E code \in Codes, data \in IouBodies :
        Watch([NoCall EXCEPT !.op = "delete_keyframe_iou", !.code = code, !.data = data],
              PostDeleteKeyframeIou(disk, backups, clock, code, data, TRUE))

RequestUpdateKeyframe ==
    \E code \in Codes, data \in UpdateBodies :
        Watch([NoCall EXCEPT !.op = "update_keyframe", !.code = code, !.data = data],
              PostUpdateKeyframe(disk, backups, clock, code, data, TRUE))

RequestDeleteKeyframes ==
    \E code \in Codes, data \in RangeBodies :
        Watch([NoCall EXCEPT !.op = "delete_keyframes", !.code = code, !.data = data],
              PostDeleteKeyframes(disk, backups, clock, code, data, TRUE))

NextRequest == RequestDeleteKeyframeIou \/ RequestUpdateKeyframe \/ RequestDeleteKeyframes

SpecRequest == Init /\ [][NextRequest]_vars

----------------------------------------------------------------------------
(* Request threads.  app.run serves each request on a thread of its own,   *)
(* and delete_keyframes takes no lock: between two of its file operations  *)
(* another request may run.  A thread is at one of the file operations of  *)
(* delete_keyframes (method 'delete'): the load (918-925), the backup copy *)
(* (930-931), open(..., 'w') (1101), json.dump and close (1102), and the   *)
(* restore of the except branch (1105).                                    *)

\* keyframes per document
RaceFrames == 2
\* seconds that may pass while the requests are served
RaceSeconds == 1

RaceThreads == {1, 2}

RaceCodes == {"0001", "0002"}

\* Path('videos_keyframes') / f'MVI_{code}_keyframes.json'
keyframes_path(code) ==
    [dir |-> "videos_keyframes", code |-> code, stem |-> "keyframes", suffix |-> <<"json">>]

\* Path.with_suffix: the last suffix of the name is replaced
with_suffix(path, suffix) == [path EXCEPT !.suffix = suffix]

\* faulty variant: the backup is named by the second alone
backup_path_by_second(code, now) ==
    [dir |-> "videos_keyframes", code |-> "", stem |-> "keyframes",
     suffix |-> <<"backup", now, "json">>]

\* keyframes_path.with_suffix(f'.backup_{datetime.now().strftime("%Y%m%d_%H%M%S")}.json')
backup_path(code, now) == with_suffix(keyframes_path(code), <<"backup", now, "json">>)

\* the files videos_keyframes/ may hold
Paths ==
    {keyframes_path(code) : code \in RaceCodes}
    \cup {with_suffix(keyframes_path(code), <<"backup", now, "json">>) :
             code \in RaceCodes \cup {""}, now \in 0..RaceSeconds}

\* no backup_path yet
NoPath == [dir |-> "", code |-> "", stem |-> "", suffix |-> <<>>]

\* a file open(..., 'w') has truncated and nothing has been written to
EmptyFile == [kind |-> "empty", keyframes |-> <<>>]

\* the documents of the two codes: the detector found both animals in every
\* frame, or two candidates on the left and none on the right in the first
RaceDocs ==
    {[i \in 1..RaceFrames |-> Frame(i - 1, <<LeftRef>>, <<RightRef>>)],
     [i \in 1..RaceFrames |->
         IF i = 1 THEN Frame(0, <<LeftFar, LeftNear>>, <<>>)
         ELSE Frame(i - 1, <<LeftRef>>, <<RightRef>>)]}

\* a thread no request has been given to
IdleThread ==
    [pc |-> "idle", code |-> "", start_time |-> -1, end_time |-> -1, side |-> "both",
     fault |-> "none", keyframes_data |-> <<>>, backup_path |-> NoPath, status |-> 0]

\* the file operation a write fails at, if any
Faults == {"none", "open", "dump"}

InitRace ==
    /\ disk = NoFile
    /\ backups = <<>>
    /\ clock = 0
    /\ call = NoCall
    /\ resp = Error(0, "")
    /\ located = NoInterval
    /\ pre = [disk |-> disk, backups |-> backups]
    /\ nops = 0
    /\ \E docs \in [RaceCodes -> RaceDocs] :
           files = [p \in Paths |->
                       IF p \in {keyframes_path(code) : code \in RaceCodes}
                       THEN JsonFile(docs[p.code]) ELSE NoFile]
    /\ threads = [t \in RaceThreads |-> IdleThread]
    /\ trace = [owner |-> [p \in Paths |->
                              IF p \in {keyframes_path(code) : code \in RaceCodes}
                              THEN p.code ELSE "nobody"],
                overwritten |-> [code \in RaceCodes |-> {}],
                written |-> <<>>,
                overlap |-> FALSE]
    /\ jobs = <<>>
    /\ progress_queues = <<>>
    /\ caller = <<>>
    /\ worker = <<>>
    /\ process = <<>>
    /\ stream = <<>>

\* what no request thread touches
RaceUnchanged ==
    UNCHANGED <<disk, backups, call, resp, located, pre, nops,
                jobs, progress_queues, caller, worker, process, stream>>

\* the thread leaves the handler with a response
Return(t, status) == [threads EXCEPT ![t].pc = "done", ![t].status = status]

\* a request arrives: POST /delete-keyframes/<code> over the whole document
Arrive(t) ==
    \E code \in RaceCodes, side \in Sides, fault \in Faults :
        /\ threads[t].pc = "idle"
        /\ threads' = [threads EXCEPT ![t] =
               [IdleThread EXCEPT !.pc = "load", !.code = code, !.start_time = 0,
                                  !.end_time = 2 * (RaceFrames - 1), !.side = side,
                                  !.fault = fault]]
        /\ trace' = [trace EXCEPT !.overlap =
               @ \/ \E u \in RaceThreads \ {t} :
                        threads[u].pc \notin {"idle", "done"} /\ threads[u].code = code]
        /\ UNCHANGED <<files, clock>>
        /\ RaceUnchanged

\* keyframes_path.exists(), json.load
Load(t) ==
    LET f == files[keyframes_path(threads[t].code)]
    IN  /\ threads[t].pc = "load"
        /\ threads' =
               IF f.kind = "missing" THEN Return(t, 404)
               ELSE IF f.kind # "json" THEN Return(t, 500)
               ELSE [threads EXCEPT ![t].pc = "backup", ![t].keyframes_data = f.keyframes]
        /\ UNCHANGED <<files, trace, clock>>
        /\ RaceUnchanged

\* shutil.copy2(keyframes_path, backup_path)
Backup(t) ==
    LET path == backup_path(threads[t].code, clock)
    IN  /\ threads[t].pc = "backup"
        /\ files' = [files EXCEPT ![path] = files[keyframes_path(threads[t].code)]]
        /\ threads' = [threads EXCEPT ![t].pc = "open", ![t].backup_path = path]
        /\ trace' = [trace EXCEPT !.owner[path] = threads[t].code]
        /\ UNCHANGED clock
        /\ RaceUnchanged

\* open(keyframes_path, 'w') truncates the file
Open(t) ==
    LET path == keyframes_path(threads[t].code)
    IN  /\ threads[t].pc = "open"
        /\ threads[t].fault # "open"
        /\ files' = [files EXCEPT ![path] = EmptyFile]
        /\ threads' = [threads EXCEPT ![t].pc = "dump"]
        /\ trace' = [trace EXCEPT !.overwritten[threads[t].code] =
               IF files[path].kind = "json" THEN @ \cup {files[path]} ELSE @]
        /\ UNCHANGED clock
        /\ RaceUnchanged

\* open(keyframes_path, 'w') raises
OpenFails(t) ==
    /\ threads[t].pc = "open"
    /\ threads[t].fault = "open"
    /\ threads' = [threads EXCEPT ![t].pc = "restore"]
    /\ UNCHANGED <<files, trace, clock>>
    /\ RaceUnchanged

\* the document after the in-memory edit of lines 940-961
Edited(t) ==
    RangeDelete(threads[t].keyframes_data, threads[t].start_time, threads[t].end_time,
                threads[t].side)

\* json.dump and close: the text goes to the start of the file.  On a file
\* another thread has written to since this thread's open, the text lands on
\* top of the other text, whose end stays behind it when it is the longer one.
Dump(t) ==
    LET path == keyframes_path(threads[t].code)
        text == JsonFile(Edited(t))
    IN  /\ threads[t].pc = "dump"
        /\ threads[t].fault = "none"
        /\ \E landed \in IF files[path].kind = "empty" \/ files[path] = text
                         THEN {text} ELSE {text, CorruptFile} :
               files' = [files EXCEPT ![path] = landed]
        /\ threads' = Return(t, 200)
        /\ trace' = [trace EXCEPT !.written = Append(@, [thread |-> t, file |-> text])]
        /\ UNCHANGED clock
        /\ RaceUnchanged

\* json.dump raises with part of the text written
DumpFails(t) ==
    /\ threads[t].pc = "dump"
    /\ threads[t].fault = "dump"
    /\ files' = [files EXCEPT ![keyframes_path(threads[t].code)] = CorruptFile]
    /\ threads' = [threads EXCEPT ![t].pc = "restore"]
    /\ UNCHANGED <<trace, clock>>
    /\ RaceUnchanged

\* shutil.move(backup_path, keyframes_path); it raises when another thread has
\* moved the backup away
Restore(t) ==
    LET from == threads[t].backup_path
    IN  /\ threads[t].pc = "restore"
        /\ files' =
               IF files[from].kind = "missing" THEN files
               ELSE [files EXCEPT ![keyframes_path(threads[t].code)] = files[from],
                                  ![from] = NoFile]
        /\ threads' = Return(t, 500)
        /\ UNCHANGED <<trace, clock>>
        /\ RaceUnchanged

\* a second passes
RaceTick ==
    /\ clock < RaceSeconds
    /\ clock' = clock + 1
    /\ UNCHANGED <<files, threads, trace>>
    /\ RaceUnchanged

NextRace ==
    \/ \E t \in RaceThreads :
           \/ Arrive(t) \/ Load(t) \/ Backup(t) \/ Open(t) \/ OpenFails(t)
           \/ Dump(t) \/ DumpFails(t) \/ Restore(t)
    \/ RaceTick

SpecRace == InitRace /\ [][NextRace]_vars

----------------------------------------------------------------------------
(* Detection jobs (src/detection_manager.py) and their progress stream     *)
(* (detection_progress in src/app.py).  Four kinds of thread share         *)
(* DetectionManager.jobs and progress_queues without a lock: the request   *)
(* thread in start_detection, the worker thread in _run_detection, a       *)
(* request thread in cancel_job, and the generators of the progress        *)
(* streams.  A step is one access to the shared dictionaries, to a queue   *)
(* or to the subprocess.  The detector is a subprocess that prints any     *)
(* number of PROGRESS lines and exits with some return code.               *)

\* PROGRESS lines the detector prints
MaxLines == 1
\* progress streams opened
MaxStreams == 2

\* str(uuid.uuid4()) of the job that is started
JobId == "job-1"

\* a job id no start_detection has returned
UnknownJobId == "job-0"

Streams == 1..MaxStreams

\* the 'type' that ends a stream when it is read from the queue
QueueTerminal == {"complete", "error"}

\* the job before line 79 stores the subprocess
NewJob == [status |-> "running", has_process |-> FALSE]

InitJobs ==
    /\ disk = NoFile
    /\ backups = <<>>
    /\ clock = 0
    /\ call = NoCall
    /\ resp = Error(0, "")
    /\ located = NoInterval
    /\ pre = [disk |-> disk, backups |-> backups]
    /\ nops = 0
    /\ files = <<>>
    /\ threads = <<>>
    /\ trace = <<>>
    /\ jobs = <<>>
    /\ progress_queues = <<>>
    /\ caller = [start |-> [pc |-> "create_queue"],
                 cancel |-> [pc |-> "idle", job_id |-> "", poll |-> "", result |-> FALSE]]
    /\ worker = [pc |-> "unborn", put |-> <<>>]
    /\ process = [state |-> "none", returncode |-> 0, stdout |-> <<>>, printed |-> 0,
                  terminated |-> FALSE]
    /\ stream = [s \in Streams |-> [pc |-> "idle", job_id |-> "", sent |-> <<>>]]

\* what no thread of the job runner touches
JobsUnchanged ==
    UNCHANGED <<disk, backups, clock, call, resp, located, pre, nops, files, threads, trace>>

\* start_detection, line 31: self.progress_queues[job_id] = queue.Queue()
CreateQueue ==
    /\ caller.start.pc = "create_queue"
    /\ progress_queues' = [j \in {JobId} |-> <<>>]
    /\ caller' = [caller EXCEPT !.start.pc = "start_thread"]
    /\ UNCHANGED <<jobs, worker, process, stream>>
    /\ JobsUnchanged

\* start_detection, lines 34-39: thread.start()
StartThread ==
    /\ caller.start.pc = "start_thread"
    /\ worker' = [worker EXCEPT !.pc = "popen"]
    /\ caller' = [caller EXCEPT !.start.pc = "store_job"]
    /\ UNCHANGED <<jobs, progress_queues, process, stream>>
    /\ JobsUnchanged

\* start_detection, lines 42-51: self.jobs[job_id] = {...}; return job_id
StoreJob ==
    /\ caller.start.pc = "store_job"
    /\ jobs' = [j \in {JobId} |-> NewJob]
    /\ caller' = [caller EXCEPT !.start.pc = "returned"]
    /\ UNCHANGED <<progress_queues, worker, process, stream>>
    /\ JobsUnchanged

\* _run_detection, lines 70-77: subprocess.Popen(cmd, ...)
Popen ==
    /\ worker.pc = "popen"
    /\ worker' = [worker EXCEPT !.pc = "store_process"]
    /\ process' = [process EXCEPT !.state = "running"]
    /\ UNCHANGED <<jobs, progress_queues, caller, stream>>
    /\ JobsUnchanged

\* subprocess.Popen raises (no 'python' on the path): on to the except branch
PopenRaises ==
    /\ worker.pc = "popen"
    /\ worker' = [worker EXCEPT !.pc = "except_status"]
    /\ UNCHANGED <<jobs, progress_queues, caller, process, stream>>
    /\ JobsUnchanged

\* line 79: self.jobs[job_id]['process'] = process; KeyError while
\* start_detection has not stored the job
StoreProcess ==
    /\ worker.pc = "store_process"
    /\ IF JobId \in DOMAIN jobs
       THEN /\ jobs' = [jobs EXCEPT ![JobId].has_process = TRUE]
            /\ worker' = [worker EXCEPT !.pc = "read"]
       ELSE /\ worker' = [worker EXCEPT !.pc = "except_status"]
            /\ UNCHANGED jobs
    /\ UNCHANGED <<progress_queues, caller, process, stream>>
    /\ JobsUnchanged

\* the detector prints a PROGRESS line
PrintLine ==
    /\ process.state = "running"
    /\ process.printed < MaxLines
    /\ process' = [process EXCEPT !.stdout = Append(@, "progress"), !.printed = @ + 1]
    /\ UNCHANGED <<jobs, progress_queues, caller, worker, stream>>
    /\ JobsUnchanged

\* the detector exits: killed by the SIGTERM of terminate(), or by itself with
\* return code 0 or with an error
Exit ==
    \E returncode \in IF process.terminated THEN {-15} ELSE {0, 2} :
        /\ process.state = "running"
        /\ process' = [process EXCEPT !.state = "exited", !.returncode = returncode]
        /\ UNCHANGED <<jobs, progress_queues, caller, worker, stream>>
        /\ JobsUnchanged

\* lines 82-90: a line of process.stdout goes to the queue
ReadLine ==
    /\ worker.pc = "read"
    /\ process.stdout # <<>>
    /\ progress_queues' = [progress_queues EXCEPT ![JobId] = Append(@, Head(process.stdout))]
    /\ process' = [process EXCEPT !.stdout = Tail(@)]
    /\ UNCHANGED <<jobs, caller, worker, stream>>
    /\ JobsUnchanged

\* lines 82, 93: process.stdout is at its end, process.wait() returns
Wait ==
    /\ worker.pc = "read"
    /\ process.stdout = <<>>
    /\ process.state = "exited"
    /\ worker' = [worker EXCEPT !.pc = "set_status"]
    /\ UNCHANGED <<jobs, progress_queues, caller, process, stream>>
    /\ JobsUnchanged

\* lines 96-97, 102-103: the status by the return code
SetStatus ==
    /\ worker.pc = "set_status"
    /\ jobs' = [jobs EXCEPT ![JobId].status =
                   IF process.returncode = 0 THEN "completed" ELSE "failed"]
    /\ worker' = [worker EXCEPT !.pc = "put"]
    /\ UNCHANGED <<progress_queues, caller, process, stream>>
    /\ JobsUnchanged

\* lines 98-101, 104-107: the last event of the job
PutLast ==
    LET type == IF process.returncode = 0 THEN "complete" ELSE "error"
    IN  /\ worker.pc = "put"
        /\ progress_queues' = [progress_queues EXCEPT ![JobId] = Append(@, type)]
        /\ worker' = [worker EXCEPT !.pc = "done", !.put = Append(@, type)]
        /\ UNCHANGED <<jobs, caller, process, stream>>
        /\ JobsUnchanged

\* line 110, in the except branch: self.jobs[job_id]['status'] = 'failed';
\* a KeyError here is not caught and ends the thread
ExceptStatus ==
    /\ worker.pc = "except_status"
    /\ IF JobId \in DOMAIN jobs
       THEN /\ jobs' = [jobs EXCEPT ![JobId].status = "failed"]
            /\ worker' = [worker EXCEPT !.pc = "except_put"]
       ELSE /\ worker' = [worker EXCEPT !.pc = "dead"]
            /\ UNCHANGED jobs
    /\ UNCHANGED <<progress_queues, caller, process, stream>>
    /\ JobsUnchanged

\* lines 111-114
ExceptPut ==
    /\ worker.pc = "except_put"
    /\ progress_queues' = [progress_queues EXCEPT ![JobId] = Append(@, "error")]
    /\ worker' = [worker EXCEPT !.pc = "done", !.put = Append(@, "error")]
    /\ UNCHANGED <<jobs, caller, process, stream>>
    /\ JobsUnchanged

\* the job ids a client can send: the one start_detection has returned, or another
KnownIds == IF caller.start.pc = "returned" THEN {JobId, UnknownJobId} ELSE {UnknownJobId}

\* cancel_job, lines 122-125: the checks and process.terminate()
CancelJob ==
    \E job_id \in KnownIds :
        /\ caller.cancel.pc = "idle"
        /\ IF /\ job_id \in DOMAIN jobs
              /\ jobs[job_id].has_process
              /\ process.state = "running"
           THEN /\ process' = [process EXCEPT !.terminated = TRUE]
                /\ caller' = [caller EXCEPT !.cancel.pc = "set_cancelled",
                                            !.cancel.job_id = job_id,
                                            !.cancel.poll = process.state]
           ELSE /\ caller' = [caller EXCEPT !.cancel.pc = "returned",
                                            !.cancel.job_id = job_id,
                                            !.cancel.result = FALSE]
                /\ UNCHANGED process
        /\ UNCHANGED <<jobs, progress_queues, worker, stream>>
        /\ JobsUnchanged

\* cancel_job, lines 126-127: job['status'] = 'cancelled'; return True
SetCancelled ==
    /\ caller.cancel.pc = "set_cancelled"
    /\ jobs' = [jobs EXCEPT ![caller.cancel.job_id].status = "cancelled"]
    /\ caller' = [caller EXCEPT !.cancel.pc = "returned", !.cancel.result = TRUE]
    /\ UNCHANGED <<progress_queues, worker, process, stream>>
    /\ JobsUnchanged

\* the events sent so far and one more; a run of heartbeats counts as one
Yield(sent, type) ==
    IF type = "heartbeat" /\ sent # <<>> /\ sent[Len(sent)] = "heartbeat"
    THEN sent ELSE Append(sent, type)

\* detection_progress, lines 211-214: the queue of the job, or the one error event
OpenStream(s) ==
    \E job_id \in KnownIds :
        /\ stream[s].pc = "idle"
        /\ stream' = [stream EXCEPT ![s] =
               IF job_id \in DOMAIN progress_queues
               THEN [pc |-> "get", job_id |-> job_id, sent |-> <<>>]
               ELSE [pc |-> "ended", job_id |-> job_id, sent |-> <<"error">>]]
        /\ UNCHANGED <<jobs, progress_queues, caller, worker, process>>
        /\ JobsUnchanged

\* lines 219-224: progress_queue.get returns an event
GetEvent(s) ==
    LET queue == progress_queues[stream[s].job_id]
    IN  /\ stream[s].pc = "get"
        /\ queue # <<>>
        /\ progress_queues' = [progress_queues EXCEPT ![stream[s].job_id] = Tail(queue)]
        /\ stream' = [stream EXCEPT
               ![s].sent = Yield(@, Head(queue)),
               ![s].pc = IF Head(queue) \in QueueTerminal THEN "ended" ELSE "status"]
        /\ UNCHANGED <<jobs, caller, worker, process>>
        /\ JobsUnchanged

\* lines 226-228: queue.Empty after a second without an event
Heartbeat(s) ==
    /\ stream[s].pc = "get"
    /\ progress_queues[stream[s].job_id] = <<>>
    /\ stream' = [stream EXCEPT ![s].sent = Yield(@, "heartbeat"), ![s].pc = "status"]
    /\ UNCHANGED <<jobs, progress_queues, caller, worker, process>>
    /\ JobsUnchanged

\* get_job_status
get_job_status(job_id) == IF job_id \in DOMAIN jobs THEN jobs[job_id].status ELSE "None"

\* lines 231-234: the cancelled event when the status says so
CheckStatus(s) ==
    /\ stream[s].pc = "status"
    /\ stream' = [stream EXCEPT ![s] =
           IF get_job_status(stream[s].job_id) = "cancelled"
           THEN [@ EXCEPT !.sent = Yield(@, "cancelled"), !.pc = "ended"]
           ELSE [@ EXCEPT !.pc = "get"]]
    /\ UNCHANGED <<jobs, progress_queues, caller, worker, process>>
    /\ JobsUnchanged

NextJobs ==
    \/ CreateQueue \/ StartThread \/ StoreJob
    \/ Popen \/ PopenRaises \/ StoreProcess \/ ReadLine \/ Wait \/ SetStatus \/ PutLast
    \/ ExceptStatus \/ ExceptPut
    \/ PrintLine \/ Exit
    \/ CancelJob \/ SetCancelled
    \/ \E s \in Streams : OpenStream(s) \/ GetEvent(s) \/ Heartbeat(s) \/ CheckStatus(s)

SpecJobs == InitJobs /\ [][NextJobs]_vars

----------------------------------------------------------------------------
(* Properties.  They speak of the kept call: its request (call), the files *)
(* it met (pre), the files it left (disk, backups) and its response.       *)

Watched == call.op # "none"

Before == pre.disk.keyframes
After == disk.keyframes

RangeCall == call.op = "delete_keyframes" /\ pre.disk.kind = "json"

\* the sides a timestamp-based call asks for
RequestedSides ==
    IF call.op = "delete_keyframe_iou"
    THEN {s \in Sides : call.side = "both" \/ call.side = s}
    ELSE IF \E s \in DOMAIN call.modifications : call.modifications[s].editType = "deletion"
    THEN {s \in DOMAIN call.modifications : call.modifications[s].editType = "deletion"}
    ELSE {s \in DOMAIN call.modifications : call.modifications[s].editType = "modification"}

\* an IoU delete or an IoU modify that found a document with keyframes
TimestampCall ==
    /\ call.op \in {"delete_keyframe_iou", "update_keyframe"}
    /\ RequestedSides # {}
    /\ pre.disk.kind = "json"
    /\ Before # <<>>

\* the response of a call that went through backup, edit and write
EditSucceeded ==
    Watched /\ resp.success /\ resp.message # "Edits received successfully"

\* C1: after a range delete of side S over [t0, t1] has returned success, every
\* keyframe with t0 <= timestamp <= t1 has an empty S list and has_S_octopus
\* False, for S left, right or both.
C1_RangeDeleteClears ==
    (RangeCall /\ call.method = "delete" /\ resp.success) =>
        \A i \in 1..Len(After) : \A s \in Sides :
            (/\ call.side \in {"both", s}
             /\ call.start_time <= After[i].timestamp
             /\ After[i].timestamp <= call.end_time)
            => (Dets(After[i], s) = <<>> /\ Has(After[i], s) = FALSE)

\* a range delete of both sides over two or more keyframes, the last of which
\* held detections on both sides
C1_Witness ==
    /\ RangeCall /\ call.method = "delete" /\ resp.success /\ call.side = "both"
    /\ call.start_time < call.end_time
    /\ \E i \in 1..Len(Before) :
        /\ Before[i].timestamp = call.end_time
        /\ Before[i].left_detections # <<>>
        /\ Before[i].right_detections # <<>>
        /\ After[i].left_detections = <<>>
        /\ After[i].right_detections = <<>>

\* C2: a range delete or infill over [t0, t1] for side S leaves every keyframe
\* outside [t0, t1] unchanged, leaves the side not selected unchanged in every
\* keyframe, and neither adds nor removes a keyframe key.
C2_RangeFrame ==
    RangeCall =>
        /\ disk.kind = "json"
        /\ Len(After) = Len(Before)
        /\ \A i \in 1..Len(Before) :
            /\ After[i].key = Before[i].key
            /\ After[i].timestamp = Before[i].timestamp
            /\ ~(call.start_time <= Before[i].timestamp /\ Before[i].timestamp <= call.end_time)
                => After[i] = Before[i]
            /\ \A s \in Sides :
                call.side \notin {"both", s}
                => (Dets(After[i], s) = Dets(Before[i], s) /\ Has(After[i], s) = Has(Before[i], s))

\* an infill of the left side that wrote a keyframe, met a keyframe with left
\* detections outside the range and a keyframe with right detections inside it
C2_Witness ==
    /\ RangeCall /\ call.method = "infill" /\ call.side = "left" /\ resp.success
    /\ \E i, j, k \in 1..Len(Before) :
        /\ Before[i].timestamp < call.start_time
        /\ Before[i].left_detections # <<>>
        /\ call.start_time <= Before[j].timestamp /\ Before[j].timestamp <= call.end_time
        /\ After[j].left_detections # Before[j].left_detections
        /\ call.start_time <= Before[k].timestamp /\ Before[k].timestamp <= call.end_time
        /\ Before[k].right_detections # <<>>

\* C3: in every keyframe and for each side, has_<side>_octopus equals the
\* non-emptiness of <side>_detections, after any sequence of range deletes,
\* infills, IoU deletes and IoU modifies on a document in which it held.
C3_SummaryMatchesList ==
    disk.kind = "json" =>
        \A i \in 1..Len(After) : \A s \in Sides :
            Has(After[i], s) = (Dets(After[i], s) # <<>>)

\* the second of two calls, an IoU modify that replaced a detection, on a
\* document the first call had changed
C3_Witness ==
    /\ call.op = "update_keyframe" /\ resp.success /\ nops = 2
    /\ resp.modified.left + resp.modified.right > 0
    /\ pre.backups[0].kind = "json"
    /\ pre.backups[0] # pre.disk
    /\ \E i \in 1..Len(After) : After[i].left_detections = <<>> /\ After[i].right_detections # <<>>

\* the call reached json.dump and the write raised
WriteFailed == Watched /\ resp.error = "Failed to save keyframes"

\* C4: when the write of the document fails during an edit, after the backup
\* was taken, the document on disk at return equals the document before the
\* call, and the call reports failure.
C4_FailedWriteRestores ==
    WriteFailed => (disk = pre.disk /\ resp.success = FALSE /\ resp.status = 500)

\* a failed write of an edit that would have changed the document
C4_Witness ==
    /\ WriteFailed /\ call.write_ok = FALSE
    /\ call.op = "delete_keyframes" /\ call.method = "delete" /\ call.side = "both"
    /\ \E i \in 1..Len(Before) :
        /\ call.start_time <= Before[i].timestamp /\ Before[i].timestamp <= call.end_time
        /\ Before[i].left_detections # <<>>
    /\ disk.kind = "json"

\* C5: an edit call that reaches the mutation step has created, before it
\* writes, a backup file holding the document as it was on disk; also when no
\* keyframe is affected; the success response names that backup file.
C5_BackupBeforeWrite ==
    /\ EditSucceeded =>
        /\ resp.backup_file = call.now
        /\ backups[resp.backup_file] = pre.disk
    /\ (Watched /\ resp.error = "TypeError") => backups[call.now] = pre.disk

\* a range delete that affected no keyframe, in a second in which an earlier
\* call had already made a backup of another document
C5_Witness ==
    /\ EditSucceeded /\ call.op = "delete_keyframes" /\ call.method = "delete"
    /\ resp.keyframes_affected = 0
    /\ disk = pre.disk
    /\ pre.backups[call.now].kind = "json"
    /\ pre.backups[call.now] # pre.disk
    /\ backups[call.now] = pre.disk

\* C6 (as claimed): a backup file, once created, is never changed or removed
\* by a later edit, also one in the same clock second or one whose save fails.
C6_BackupsImmutable ==
    Watched => \A n \in DOMAIN backups :
        pre.backups[n].kind # "missing" => backups[n] = pre.backups[n]

\* the document the locator scans, in ascending frame number
Scanned == sorted_frames(Before)

\* position in Scanned of the keyframe the locator took as nearest
NearestIndex == IndexOf(Scanned, located.nearest_frame_key)

\* the requested sides on which the nearest keyframe has a detection
ReferenceSides == {s \in RequestedSides : Dets(Scanned[NearestIndex], s) # <<>>}

\* keyframe i has a non-empty s list whose first detection has IoU >= 0.8 with
\* the first s detection of the nearest keyframe
SimilarAt(i, s) ==
    /\ Dets(Scanned[i], s) # <<>>
    /\ RLe(Rat(4, 5), calculate_iou(Dets(Scanned[NearestIndex], s)[1], Dets(Scanned[i], s)[1]))

\* the located interval is what the response reports
IntervalReported ==
    resp.success =>
        /\ resp.interval.start_frame = Scanned[located.interval_start_index].key
        /\ resp.interval.end_frame = Scanned[located.interval_end_index].key
        /\ resp.frames_affected = located.interval_end_index - located.interval_start_index + 1

\* C7: for one requested side S with a detection at the nearest keyframe, the
\* locator returns exactly the maximal run of keyframes, consecutive in
\* ascending frame number and containing the nearest keyframe, in which every
\* other keyframe has a non-empty S list whose first detection has IoU >= 0.8
\* with the nearest keyframe's first S detection; IoU exactly 0.8 is included.
C7_MaximalSimilarRun ==
    (TimestampCall /\ Cardinality(RequestedSides) = 1 /\ ReferenceSides # {}) =>
        LET S == CHOOSE s \in RequestedSides : TRUE
            a == located.interval_start_index
            b == located.interval_end_index
        IN  /\ located.found = "ok"
            /\ 1 <= a /\ a <= NearestIndex /\ NearestIndex <= b /\ b <= Len(Scanned)
            /\ \A i \in a..b : i # NearestIndex => SimilarAt(i, S)
            /\ a > 1 => ~SimilarAt(a - 1, S)
            /\ b < Len(Scanned) => ~SimilarAt(b + 1, S)
            /\ IntervalReported

\* keyframes 0..3 with left boxes far, reference, at IoU exactly 0.8, far and a
\* request at keyframe 1 for the left side: the interval is keyframes 1..2
C7_Witness ==
    /\ TimestampCall /\ RequestedSides = {"left"} /\ resp.success
    /\ Len(Scanned) = 4
    /\ NearestIndex = 2
    /\ located.interval_start_index = 2
    /\ located.interval_end_index = 3
    /\ Dets(Scanned[1], "left") # <<>>
    /\ Dets(Scanned[4], "left") # <<>>
    /\ calculate_iou(Dets(Scanned[2], "left")[1], Dets(Scanned[3], "left")[1]) = Rat(4, 5)

\* C8 (as claimed): when the requested side is 'both', every keyframe of the
\* returned interval other than the nearest has non-empty, similar detections
\* on both sides.
C8_BothSidesSimilar ==
    (TimestampCall /\ RequestedSides = Sides /\ located.found = "ok") =>
        \A i \in located.interval_start_index..located.interval_end_index :
            i # NearestIndex =>
                \A s \in Sides :
                    /\ Dets(Scanned[i], s) # <<>>
                    /\ s \in ReferenceSides => SimilarAt(i, s)

\* C8 (amended): when the requested side is 'both', the scans stop at and
\* exclude a keyframe in which a side with a reference box, that is a side with
\* a detection at the nearest keyframe, has an empty list or a first detection
\* with IoU < 0.8 against that reference box; every keyframe of the returned
\* interval other than the nearest has non-empty, similar detections on each
\* such side.
C8_ReferenceSidesSimilar ==
    (TimestampCall /\ RequestedSides = Sides /\ ReferenceSides # {}) =>
        LET a == located.interval_start_index
            b == located.interval_end_index
        IN  /\ located.found = "ok"
            /\ located.refs = ReferenceSides
            /\ a <= NearestIndex /\ NearestIndex <= b
            /\ \A i \in a..b : i # NearestIndex => \A s \in ReferenceSides : SimilarAt(i, s)
            /\ a > 1 => \E s \in ReferenceSides : ~SimilarAt(a - 1, s)
            /\ b < Len(Scanned) => \E s \in ReferenceSides : ~SimilarAt(b + 1, s)

\* a request for both sides at a keyframe with both detections: the interval
\* takes in a neighbour and stops at a keyframe that is similar on the left
\* and empty on the right
C8_Witness ==
    /\ TimestampCall /\ RequestedSides = Sides /\ resp.success
    /\ ReferenceSides = Sides
    /\ located.interval_start_index < located.interval_end_index
    /\ located.interval_end_index < Len(Scanned)
    /\ SimilarAt(located.interval_end_index + 1, "left")
    /\ Dets(Scanned[located.interval_end_index + 1], "right") = <<>>

\* C9: an IoU delete or IoU modify whose nearest keyframe has no detection on
\* any requested side fails with NotFound; no backup is created and the
\* document on disk is unchanged.
C9_NoReferenceNotFound ==
    (TimestampCall /\ ReferenceSides = {}) =>
        /\ resp.status = 404
        /\ resp.success = FALSE
        /\ resp.error = "No detection found"
        /\ backups = pre.backups
        /\ disk = pre.disk

\* a request for both sides whose nearest keyframe an earlier call had emptied,
\* in a second that has no backup yet, on a document that has detections elsewhere
C9_Witness ==
    /\ TimestampCall /\ RequestedSides = Sides /\ ReferenceSides = {}
    /\ resp.status = 404
    /\ pre.backups[call.now].kind = "missing"
    /\ backups[call.now].kind = "missing"
    /\ \E i \in 1..Len(Scanned) : Dets(Scanned[i], "left") # <<>> /\ Dets(Scanned[i], "right") # <<>>

Distance(i) == Abs(Before[i].timestamp - call.timestamp)

\* C10: the locator's reference keyframe has minimal |timestamp - reference
\* timestamp| over all keyframes; among equidistant keyframes it is the one
\* met first in the document's iteration order.
C10_NearestFirstEncountered ==
    TimestampCall =>
        \E i \in 1..Len(Before) :
            /\ Before[i].key = located.nearest_frame_key
            /\ \A j \in 1..Len(Before) : Distance(i) <= Distance(j)
            /\ \A j \in 1..(i - 1) : Distance(i) < Distance(j)

\* two keyframes equidistant from the request, the higher frame number first in
\* iteration order, and the locator took that one
C10_Witness ==
    /\ TimestampCall
    /\ \E i, j \in 1..Len(Before) :
        /\ i < j
        /\ Before[i].key > Before[j].key
        /\ Distance(i) = Distance(j)
        /\ \A k \in 1..Len(Before) : Distance(i) <= Distance(k)
        /\ located.nearest_frame_key = Before[i].key

\* the modification sides of the kept call and the box sent for each
SentSides ==
    {s \in DOMAIN call.modifications : call.modifications[s].editType = "modification"}

SentBox(s) == call.modifications[s].bbox

\* 0 <= x_min < x_max <= 1 and 0 <= y_min < y_max <= 1
ValidCoordinates(b) ==
    /\ RLe(Zero, b.x_min) /\ RLt(b.x_min, b.x_max) /\ RLe(b.x_max, One)
    /\ RLe(Zero, b.y_min) /\ RLt(b.y_min, b.y_max) /\ RLe(b.y_max, One)

ModifyCall ==
    /\ call.op = "update_keyframe"
    /\ SentSides # {}
    /\ \A s \in DOMAIN call.modifications : call.modifications[s].editType = "modification"
    /\ \A s \in SentSides : SentBox(s) # NoBox

\* C11 (as claimed): a modify whose box for some side has x_min >= x_max, or
\* y_min >= y_max, or a coordinate outside [0, 1], is rejected as invalid input
\* before any mutation and leaves the document unchanged.
C11_InvalidBoxRejected ==
    (ModifyCall /\ \E s \in SentSides : ~ValidCoordinates(SentBox(s))) =>
        /\ resp.success = FALSE
        /\ disk = pre.disk
        /\ backups = pre.backups

\* the entry of the document after the call that has the key of Scanned[i]
AfterAt(i) == After[IndexOf(After, Scanned[i].key)]

\* C12 (as claimed): after a successful modify every keyframe of the located
\* interval has, for each side a box was sent for, a detection list of exactly
\* one box with the sent coordinates, confidence 1.0 and edited: true.
C12_IntervalReplaced ==
    (ModifyCall /\ resp.success) =>
        \A i \in located.interval_start_index..located.interval_end_index :
            \A s \in SentSides :
                Dets(AfterAt(i), s) =
                    <<[x_min |-> SentBox(s).x_min, y_min |-> SentBox(s).y_min,
                       x_max |-> SentBox(s).x_max, y_max |-> SentBox(s).y_max,
                       confidence |-> One, side |-> s,
                       interpolated |-> FALSE, edited |-> TRUE]>>

\* a delete_keyframes call with method 'infill' that wrote the document
InfillCall == RangeCall /\ call.method = "infill" /\ resp.success

AsSelected(s) == call.side = "both" \/ call.side = s

InRangeAt(i) ==
    call.start_time <= Before[i].timestamp /\ Before[i].timestamp <= call.end_time

\* the keyframes before the range, and those after it, that have s detections
PrevSet(s) ==
    {i \in 1..Len(Before) : Before[i].timestamp < call.start_time /\ Dets(Before[i], s) # <<>>}

NextSet(s) ==
    {i \in 1..Len(Before) : Before[i].timestamp > call.end_time /\ Dets(Before[i], s) # <<>>}

\* the boundary keyframes: the last one before the range, the first one after it
PrevFrame(s) ==
    Before[CHOOSE i \in PrevSet(s) : \A j \in PrevSet(s) : Before[j].key <= Before[i].key]

NextFrame(s) ==
    Before[CHOOSE i \in NextSet(s) : \A j \in NextSet(s) : Before[i].key <= Before[j].key]

PrevBox(s) == compute_union_bbox(Dets(PrevFrame(s), s))

NextBox(s) == compute_union_bbox(Dets(NextFrame(s), s))

\* v = p + (n - p) * (t - pt) / (nt - pt), without the division
OnLine(v, p, n, t, pt, nt) ==
    RMul(RSub(v, p), <<nt - pt, 1>>) = RMul(RSub(n, p), <<t - pt, 1>>)

\* C13: infill with both boundaries present writes to each in-range keyframe
\* at timestamp t a single box, marked interpolated, whose coordinates and
\* confidence equal prev + (next - prev) * w with
\* w = (t - prev_ts) / (next_ts - prev_ts).
C13_LinearInterpolation ==
    InfillCall =>
        \A s \in Sides :
            (AsSelected(s) /\ PrevSet(s) # {} /\ NextSet(s) # {}) =>
                \A i \in 1..Len(Before) :
                    InRangeAt(i) =>
                        LET t == Before[i].timestamp
                            pt == PrevFrame(s).timestamp
                            nt == NextFrame(s).timestamp
                            P == PrevBox(s)
                            N == NextBox(s)
                        IN  /\ Len(Dets(After[i], s)) = 1
                            /\ Has(After[i], s) = TRUE
                            /\ LET box == Dets(After[i], s)[1]
                               IN  /\ box.interpolated = TRUE
                                   /\ box.side = s
                                   /\ OnLine(box.x_min, P.x_min, N.x_min, t, pt, nt)
                                   /\ OnLine(box.y_min, P.y_min, N.y_min, t, pt, nt)
                                   /\ OnLine(box.x_max, P.x_max, N.x_max, t, pt, nt)
                                   /\ OnLine(box.y_max, P.y_max, N.y_max, t, pt, nt)
                                   /\ OnLine(box.confidence, P.confidence, N.confidence, t, pt, nt)

\* a left infill between two different boundary boxes of a keyframe that is
\* not halfway between them
C13_Witness ==
    /\ InfillCall /\ call.side = "left"
    /\ PrevSet("left") # {} /\ NextSet("left") # {}
    /\ PrevBox("left").x_max # NextBox("left").x_max
    /\ \E i \in 1..Len(Before) :
        /\ InRangeAt(i)
        /\ Before[i].timestamp - PrevFrame("left").timestamp
               # NextFrame("left").timestamp - Before[i].timestamp
        /\ Dets(After[i], "left") # Dets(Before[i], "left")

\* the side has a boundary keyframe on exactly one side of the range
OneBoundary(s) == (PrevSet(s) = {}) # (NextSet(s) = {})

BoundaryBox(s) == IF PrevSet(s) # {} THEN PrevBox(s) ELSE NextBox(s)

\* C14: infill for a side with exactly one boundary writes to every in-range
\* keyframe a single box equal to that boundary's (union) box with
\* interpolated: true added and no other field changed, and leaves the
\* boundary keyframe's own detections unchanged.
C14_CopyBoundary ==
    InfillCall =>
        \A s \in Sides :
            (AsSelected(s) /\ OneBoundary(s)) =>
                /\ \A i \in 1..Len(Before) :
                    InRangeAt(i) =>
                        /\ Dets(After[i], s) = <<[BoundaryBox(s) EXCEPT !.interpolated = TRUE]>>
                        /\ Has(After[i], s) = TRUE
                /\ \A i \in PrevSet(s) \cup NextSet(s) : After[i] = Before[i]

\* a left infill with two keyframes that have detections before the range and
\* none after it; the nearer one holds two detections
C14_Witness ==
    /\ InfillCall /\ call.side = "left"
    /\ Cardinality(PrevSet("left")) = 2 /\ NextSet("left") = {}
    /\ Len(Dets(PrevFrame("left"), "left")) = 2
    /\ \E i \in PrevSet("left") : Dets(Before[i], "left") # Dets(PrevFrame("left"), "left")
    /\ \E i \in 1..Len(Before) :
        InRangeAt(i) /\ Dets(After[i], "left") # Dets(Before[i], "left")

CountOf(c, s) == IF s = "left" THEN c.left ELSE c.right

\* C15: infill for a side with neither a prev nor a next boundary keyframe
\* leaves every keyframe's detections and boolean summary for that side
\* unchanged and reports zero infilled keyframes for that side.
C15_NoBoundaryNoChange ==
    InfillCall =>
        \A s \in Sides :
            (AsSelected(s) /\ PrevSet(s) = {} /\ NextSet(s) = {}) =>
                /\ \A i \in 1..Len(Before) :
                    /\ Dets(After[i], s) = Dets(Before[i], s)
                    /\ Has(After[i], s) = Has(Before[i], s)
                /\ CountOf(resp.infilled, s) = 0

\* an infill of both sides over a range that holds keyframes: the left side has
\* no boundary, the right side has one and is infilled
C15_Witness ==
    /\ InfillCall /\ call.side = "both"
    /\ PrevSet("left") = {} /\ NextSet("left") = {}
    /\ PrevSet("right") # {}
    /\ \E i \in 1..Len(Before) : InRangeAt(i) /\ Dets(Before[i], "left") = <<>>
    /\ resp.infilled.right > 0
    /\ resp.infilled.left = 0

\* x_min < x_max and y_min < y_max for every box of the document
ProperBoxes(keyframes) ==
    \A i \in 1..Len(keyframes) : \A s \in Sides :
        \A k \in 1..Len(Dets(keyframes[i], s)) :
            LET b == Dets(keyframes[i], s)[k]
            IN  RLt(b.x_min, b.x_max) /\ RLt(b.y_min, b.y_max)

\* C16: if every box of the document has x_min < x_max and y_min < y_max, so
\* has every box written by infill, be it interpolated, copied or reduced
\* through the union bbox.
C16_InfillKeepsBoxesProper ==
    (RangeCall /\ call.method = "infill" /\ ProperBoxes(Before)) => ProperBoxes(After)

\* an infill that wrote a box derived from the union of the two detections of
\* the prev boundary keyframe
C16_Witness ==
    /\ InfillCall /\ ProperBoxes(Before)
    /\ \E s \in Sides :
        /\ AsSelected(s)
        /\ PrevSet(s) # {}
        /\ Len(Dets(PrevFrame(s), s)) = 2
        /\ \E i \in 1..Len(Before) :
            InRangeAt(i) /\ Dets(After[i], s) # Dets(Before[i], s)

\* box inner lies within the envelope outer
Contains(outer, inner) ==
    /\ RLe(outer.x_min, inner.x_min) /\ RLe(outer.y_min, inner.y_min)
    /\ RLe(inner.x_max, outer.x_max) /\ RLe(inner.y_max, outer.y_max)

\* C17: compute_union_bbox returns None for an empty list, the sole element
\* unchanged for a singleton list, and for two or more boxes the coordinate-wise
\* min/max envelope, which contains every input box, with side taken from the
\* first element.
C17_UnionEnvelope ==
    call.op = "compute_union_bbox" =>
        LET d == call.args
            n == Len(d)
        IN  /\ n = 0 => resp = NoBox
            /\ n = 1 => resp = d[1]
            /\ n >= 2 =>
                /\ \A i \in 1..n : Contains(resp, d[i])
                /\ \E i \in 1..n : resp.x_min = d[i].x_min
                /\ \E i \in 1..n : resp.y_min = d[i].y_min
                /\ \E i \in 1..n : resp.x_max = d[i].x_max
                /\ \E i \in 1..n : resp.y_max = d[i].y_max
                /\ resp.side = d[1].side

\* three boxes, the first of another side than the last, whose envelope is
\* none of them and whose smallest x_min is not the first one's
C17_Witness ==
    /\ call.op = "compute_union_bbox"
    /\ Len(call.args) = 3
    /\ call.args[1].side # call.args[3].side
    /\ \A i \in 1..3 : ~Contains(call.args[i], resp)
    /\ RLt(resp.x_min, call.args[1].x_min)
    /\ resp.side = call.args[1].side

Present(b) == b # NoBox

PositiveArea(b) == RLt(b.x_min, b.x_max) /\ RLt(b.y_min, b.y_max)

\* the boxes share no interior point: apart, or touching on an edge or corner
NonOverlapping(a, b) ==
    \/ RLe(a.x_max, b.x_min) \/ RLe(b.x_max, a.x_min)
    \/ RLe(a.y_max, b.y_min) \/ RLe(b.y_max, a.y_min)

\* C18: calculate_iou(a, a) is 1.0 for every box a of positive area,
\* calculate_iou(a, b) is 0.0 for every pair of non-overlapping boxes, those
\* touching on an edge included, and the result is 0 when either box is absent
\* or the union area is 0.
C18_IouValues ==
    call.op = "calculate_iou" =>
        LET a == call.args[1]
            b == call.args[2]
        IN  /\ (~Present(a) \/ ~Present(b)) => resp = Zero
            /\ (Present(a) /\ a = b /\ PositiveArea(a)) => resp = One
            /\ (Present(a) /\ Present(b) /\ NonOverlapping(a, b)) => resp = Zero
            /\ (Present(a) /\ Present(b) /\ ~PositiveArea(a) /\ ~PositiveArea(b)) => resp = Zero

\* two boxes of positive area that touch along an edge
C18_Witness ==
    /\ call.op = "calculate_iou"
    /\ Present(call.args[1]) /\ Present(call.args[2])
    /\ PositiveArea(call.args[1]) /\ PositiveArea(call.args[2])
    /\ call.args[1].x_max = call.args[2].x_min
    /\ RLt(call.args[1].y_min, call.args[2].y_max)
    /\ RLt(call.args[2].y_min, call.args[1].y_max)
    /\ resp = Zero

\* a call that goes on to load the document: every edit call but an
\* update_keyframe that carries neither a deletion nor a modification
LoadingCall ==
    /\ Watched
    /\ call.op \in {"update_keyframe", "delete_keyframe_iou", "delete_keyframes"}
    /\ call.op = "update_keyframe" => RequestedSides # {}

\* C19 (as claimed): an edit call on a code whose document file is missing
\* fails with NotFound, and on a document that is not valid JSON or lacks the
\* keyframes field it fails with Corrupt; in both cases no backup is created
\* and the file is not rewritten.
C19_LoadFailureNoMutation ==
    (LoadingCall /\ pre.disk.kind # "json") =>
        /\ resp.success = FALSE
        /\ pre.disk.kind = "missing" => resp.status = 404
        /\ pre.disk.kind \in {"corrupt", "no_keyframes"} => resp.status = 500
        /\ backups = pre.backups
        /\ disk = pre.disk

\* exactly four decimal digits
FourDecimalDigits(code) ==
    Len(code) = 4 /\ \A i \in 1..4 : code[i] \in DecimalDigits

\* the fields the route of the kept call requires
RequiredFields ==
    IF call.op = "delete_keyframes" THEN {"start_time", "end_time"} ELSE {"timestamp"}

\* C20 (as claimed): every edit endpoint rejects a malformed code (not exactly
\* four decimal digits) and a request that lacks a required field (timestamp,
\* or start_time / end_time) before any mutation: no backup is taken and no
\* file is touched.
C20_InvalidRequestRejected ==
    (/\ call.op \in {"update_keyframe", "delete_keyframe_iou", "delete_keyframes"}
     /\ \/ ~FourDecimalDigits(call.code)
        \/ ~(RequiredFields \subseteq DOMAIN call.data)) =>
        /\ resp.success = FALSE
        /\ backups = pre.backups
        /\ disk = pre.disk

----------------------------------------------------------------------------
(* Properties of the request threads.  trace.owner names, for every file,  *)
(* the code it belongs to: the code of a keyframe document, and for a      *)
(* backup file the code of the request that created it.                    *)

\* the thread takes a step
Steps(t) == threads'[t] # threads[t]

\* the files that belong to a code other than the given one
FilesOfOthers(code) == {p \in Paths : trace.owner[p] \notin {code, "nobody"}}

\* C21: a step of an edit request on code A leaves the keyframe document and
\* every backup file of any other code B as they are, whatever the other
\* requests have done in between.
C21_CodesIndependent ==
    [][\A t \in RaceThreads :
           Steps(t) => \A p \in FilesOfOthers(threads'[t].code) : files'[p] = files[p]]_vars

\* two requests on different codes, both past their backup and their write,
\* one of them successfully and the other restored from its backup
C21_Witness ==
    /\ threads[1].pc = "done" /\ threads[2].pc = "done"
    /\ threads[1].code # threads[2].code
    /\ threads[1].status = 200 /\ threads[2].status = 500
    /\ files[keyframes_path(threads[1].code)] # files[keyframes_path(threads[2].code)]
    /\ trace.owner[threads[1].backup_path] = threads[1].code
    /\ trace.owner[threads[2].backup_path] = threads[2].code

\* the two requests were on the same code, in flight at the same time, and
\* both wrote their document
BothWrote ==
    /\ trace.overlap
    /\ \A t \in RaceThreads : threads[t].pc = "done" /\ threads[t].status = 200
    /\ threads[1].code = threads[2].code

\* some backup file of the code holds the document
HeldByBackup(code, file) ==
    \E now \in 0..RaceSeconds : files[backup_path(code, now)] = file

\* C22: after two overlapping edit requests on one code, the document on disk
\* is the one the last writer wrote, and every document that was on disk
\* before a write is held by some backup file.
C22_LastWriteWinsBackupsKeepAll ==
    BothWrote =>
        /\ files[keyframes_path(threads[1].code)] = trace.written[Len(trace.written)].file
        /\ \A file \in trace.overwritten[threads[1].code] :
               HeldByBackup(threads[1].code, file)

----------------------------------------------------------------------------
(* Properties of the detection jobs *)

\* the types that end a progress stream
TerminalEvents == {"complete", "error", "cancelled"}

TerminalStatus == {"completed", "failed", "cancelled"}

\* the worker thread has returned or has died of an exception
WorkerOver == worker.pc \in {"done", "dead"}

\* the stream has been opened on a job and has not ended
Streaming(s) == stream[s].pc \in {"get", "status"}

\* something can still end the stream: an event that ends it waits in the
\* queue, the status read after each event is 'cancelled' or about to be, or
\* the worker thread is still on its way to its last event
CanEnd(s) ==
    \/ \E i \in 1..Len(progress_queues[stream[s].job_id]) :
           progress_queues[stream[s].job_id][i] \in QueueTerminal
    \/ get_job_status(stream[s].job_id) = "cancelled"
    \/ caller.cancel.pc = "set_cancelled"
    \/ ~WorkerOver

\* C24: a progress stream ends once the detector has exited (while it is open
\* after the exit, something can still end it); a stream that has ended sent complete,
\* error or cancelled as its last event and no such event before; for an
\* unknown job id the stream is the one error event.
C24_StreamTerminates ==
    \A s \in Streams :
        /\ Streaming(s) /\ process.state = "exited" => CanEnd(s)
        /\ stream[s].pc = "ended" =>
               LET sent == stream[s].sent
               IN  IF stream[s].job_id = UnknownJobId
                   THEN sent = <<"error">>
                   ELSE /\ sent # <<>>
                        /\ sent[Len(sent)] \in TerminalEvents
                        /\ \A i \in 1..(Len(sent) - 1) : sent[i] \notin TerminalEvents

\* C26: once start_detection has returned, the worker thread is over and the
\* detector has exited, the job has a terminal status and the worker has
\* put a terminal event on the queue; and a job with a terminal status never
\* goes back to running.
C26_JobReachesTerminalStatus ==
    /\ [](caller.start.pc = "returned" /\ WorkerOver /\ process.state = "exited" =>
              /\ jobs[JobId].status \in TerminalStatus
              /\ \E i \in 1..Len(worker.put) : worker.put[i] \in QueueTerminal)
    /\ [][\A j \in DOMAIN jobs :
              jobs[j].status \in TerminalStatus => jobs'[j].status # "running"]_vars

\* C27: cancel_job has returned True only for a known job whose subprocess was
\* running, and from then on the status of the job is cancelled.
C27_CancelledStaysCancelled ==
    caller.cancel.pc = "returned" /\ caller.cancel.result =>
        /\ caller.cancel.job_id \in DOMAIN jobs
        /\ caller.cancel.poll = "running"
        /\ jobs[caller.cancel.job_id].status = "cancelled"

----------------------------------------------------------------------------
(* Properties of the counts, of the two deletion paths, of the edit types   *)
(* and of the interpolation weight                                         *)

\* the positions in Before of the keyframes an edit was aimed at: those of the
\* time range, or those of the located interval
TargetFrames ==
    IF call.op = "delete_keyframes"
    THEN {i \in 1..Len(Before) :
             call.start_time <= Before[i].timestamp /\ Before[i].timestamp <= call.end_time}
    ELSE {i \in 1..Len(Before) :
             \E k \in located.interval_start_index..located.interval_end_index :
                 Scanned[k].key = Before[i].key}

\* the number of s detections the keyframes at the given positions held
RECURSIVE HeldIn(_, _)
HeldIn(positions, s) ==
    IF positions = {} THEN 0
    ELSE LET i == CHOOSE j \in positions : TRUE
         IN  Len(Dets(Before[i], s)) + HeldIn(positions \ {i}, s)

\* a range delete or an IoU-based delete that went through
DeleteCall ==
    /\ EditSucceeded
    /\ \/ call.op = "delete_keyframes" /\ call.method = "delete"
       \/ call.op = "delete_keyframe_iou"

\* C25: a range delete and an IoU-based delete return, for each selected side,
\* the number of detections the side held before the call in the keyframes of
\* the range or interval, and 0 for a side that was not selected.
C25_DeletedCounts ==
    DeleteCall =>
        \A s \in Sides :
            CountOf(resp.deleted, s) = IF AsSelected(s) THEN HeldIn(TargetFrames, s) ELSE 0

\* a left delete that reports more detections than keyframes, with right
\* detections in its target
C25_Witness ==
    /\ DeleteCall
    /\ call.side = "left"
    /\ resp.deleted.left > Cardinality(TargetFrames)
    /\ resp.deleted.right = 0
    /\ HeldIn(TargetFrames, "right") > 0

\* the request to update_keyframe that marks the selected side or sides for deletion
DeletionOf(side) ==
    [s \in {r \in Sides : side = "both" \/ side = r} |->
        [editType |-> "deletion", bbox |-> NoBox]]

\* what update_keyframe leaves behind on the files and the request of the kept call
ByUpdateKeyframe ==
    update_keyframe(pre.disk, pre.backups, call.now, call.timestamp, DeletionOf(call.side),
                    call.write_ok)

\* C28: on the same document, timestamp and sides, update_keyframe with
\* editType 'deletion' and delete_keyframe_iou leave the same document and
\* return the same interval and the same deleted counts.
C28_DeletionPathsAgree ==
    call.op = "delete_keyframe_iou" =>
        /\ ByUpdateKeyframe.disk = disk
        /\ ByUpdateKeyframe.resp.success = resp.success
        /\ ByUpdateKeyframe.resp.interval = resp.interval
        /\ ByUpdateKeyframe.resp.deleted = resp.deleted

\* an IoU-based delete of both sides over an interval of two or more keyframes
C28_Witness ==
    /\ call.op = "delete_keyframe_iou" /\ call.side = "both" /\ resp.success
    /\ resp.interval.start_frame < resp.interval.end_frame
    /\ resp.deleted.left > 0 /\ resp.deleted.right > 0
    /\ disk # pre.disk

\* the sides of the kept request that carry the given editType
Carrying(t) == {s \in DOMAIN call.modifications : call.modifications[s].editType = t}

\* C29: update_keyframe with a deletion on one side and a modification on the
\* other returns success having applied the deletion only (the side marked
\* for modification is as it was in every keyframe, and a call that fails
\* leaves the document as it was); with nothing but
\* additions it returns success and leaves the document and the backups as
\* they were.
C29_OnlyDeletionApplied ==
    call.op = "update_keyframe" =>
        /\ (Carrying("deletion") # {} /\ Carrying("modification") # {} /\ resp.success) =>
               /\ resp.message = "IoU-based deletion completed"
               /\ resp.modified = NoCounts
               /\ Len(After) = Len(Before)
               /\ \A i \in 1..Len(Before) : \A s \in Carrying("modification") :
                      Dets(After[i], s) = Dets(Before[i], s) /\ Has(After[i], s) = Has(Before[i], s)
               /\ \A i \in TargetFrames : \A s \in Carrying("deletion") :
                      Dets(After[i], s) = <<>>
        /\ (Carrying("deletion") # {} /\ Carrying("modification") # {} /\ ~resp.success) =>
               disk = pre.disk
        /\ (Carrying("addition") # {} /\ Carrying("addition") = DOMAIN call.modifications) =>
               /\ resp.success
               /\ disk = pre.disk
               /\ backups = pre.backups

\* a left deletion sent with a right modification: the left lists of the
\* interval are emptied and its right detections are still the detector's
C29_Witness ==
    /\ call.op = "update_keyframe" /\ resp.success
    /\ Carrying("deletion") = {"left"} /\ Carrying("modification") = {"right"}
    /\ call.modifications["right"].bbox = DrawnBox
    /\ \E i \in TargetFrames :
           /\ Dets(Before[i], "left") # <<>>
           /\ Dets(After[i], "left") = <<>>
           /\ Dets(After[i], "right") = <<RightRef>>

\* find_boundary_keyframes(s) of the kept infill
Boundary(s) == find_boundary_keyframes(Before, s, call.start_time, call.end_time)

\* the timestamps of prev_frame and next_frame
PrevTs(s) == Scanned[Boundary(s).prev].timestamp

NextTs(s) == Scanned[Boundary(s).next].timestamp

\* the keyframes for which the infill of side s computes a weight
Weighted(s) ==
    IF AsSelected(s) /\ Boundary(s).prev # 0 /\ Boundary(s).next # 0
    THEN {i \in 1..Len(Before) : InRange(Before[i], call.start_time, call.end_time)}
    ELSE {}

\* C30: wherever infill computes a weight, prev_ts < start_time <= t <=
\* end_time < next_ts, so next_ts - prev_ts is positive and the weight
\* (t - prev_ts) / (next_ts - prev_ts) lies strictly between 0 and 1.
C30_WeightStrictlyInside ==
    (RangeCall /\ call.method = "infill") =>
        \A s \in Sides : \A i \in Weighted(s) :
            LET t == Before[i].timestamp
            IN  /\ PrevTs(s) < call.start_time
                /\ call.start_time <= t
                /\ t <= call.end_time
                /\ call.end_time < NextTs(s)
                /\ NextTs(s) - PrevTs(s) > 0
                /\ 0 < t - PrevTs(s)
                /\ t - PrevTs(s) < NextTs(s) - PrevTs(s)

\* an infill of a range of two keyframes between two boundaries: the weights
\* are 1/3 and 2/3
C30_Witness ==
    /\ InfillCall /\ call.side = "left"
    /\ Cardinality(Weighted("left")) = 2
    /\ \E i \in Weighted("left") :
           Rat(Before[i].timestamp - PrevTs("left"), NextTs("left") - PrevTs("left")) = Rat(1, 3)
    /\ \E i \in Weighted("left") : Dets(After[i], "left") # Dets(Before[i], "left")

====
